---- MODULE Spec2Model ----
(***************************************************************************)
(* Model of github.com/swayne275/go-retry: the retry and repeat executors  *)
(* (retry.Do and its convenience wrappers, repeat.Do) driving a backoff    *)
(* chain (Constant, Exponential, Fibonacci, WithMaxRetries, WithContext)   *)
(* under cooperative cancellation of a context.                            *)
(***************************************************************************)
EXTENDS Integers, Sequences, FiniteSets, TLC

(***************************************************************************)
(* Bounds of the model.                                                    *)
(***************************************************************************)
\* largest max handed to WithMaxRetries
MaxK == 2
\* operation invocations explored while the context is not canceled: enough
\* for every WithMaxRetries of the model to stop
MaxCalls == MaxK + 1
\* width, in bits, of the scaled-down time.Duration (int64 in the source)
DurBits == 5

\* Next calls on a backoff called directly, between two Resets: enough to
\* pass the point where Exponential and Fibonacci saturate
MaxNexts == DurBits + 3
\* Reset calls on a backoff called directly
MaxResets == 2

\* math.MaxInt64 at the model's width
MaxInt == 2 ^ (DurBits - 1) - 1
\* the modulus of the unsigned attempt counter (uint64 in the source)
UintMod == 2 ^ DurBits

(***************************************************************************)
(* Errors.  An error is the sequence of the nodes of its Unwrap chain,     *)
(* outermost first; the nil error is the empty sequence.                   *)
(***************************************************************************)
NoErr == << >>

Causes == {"e1", "e2"}

\* retry.RetryableError: marks an error as retryable, nil stays nil
RetryableError(err) == IF err = NoErr THEN NoErr ELSE <<"retryable">> \o err

\* fmt.Errorf("...: %w", err) with a single wrapped error
Errorf1(err) == <<"errorf">> \o err

\* errors.Is on a single chain: some error of the chain is the target
ChainIs(err, target) ==
    /\ target # NoErr
    /\ \E i \in 1..Len(err) : SubSeq(err, i, Len(err)) = target

\* errors.As(err, &rerr) for *retryableError: is there such a node
IsRetryable(err) == \E i \in 1..Len(err) : err[i] = "retryable"

\* the *retryableError that errors.As stores in rerr: the first one of the chain
AsRetryable(err) ==
    LET i == CHOOSE j \in 1..Len(err) :
                 /\ err[j] = "retryable"
                 /\ \A k \in 1..(j - 1) : err[k] # "retryable"
    IN SubSeq(err, i, Len(err))

\* (*retryableError).Unwrap
Unwrap(rerr) == Tail(rerr)

\* the sentinels
ErrNonRetryable == <<"ErrNonRetryable">>
errBackoffSignaledToStop == <<"errBackoffSignaledToStop">>
ErrFunctionSignaledToStop == <<"ErrFunctionSignaledToStop">>
ErrBackoffSignaledToStop == <<"ErrBackoffSignaledToStop">>

\* context.Canceled and context.DeadlineExceeded, the values of ctx.Err()
CtxCauses == {<<"context.Canceled">>, <<"context.DeadlineExceeded">>}

(***************************************************************************)
(* The value an executor returns.                                          *)
(***************************************************************************)
\* the executor has not returned yet
Pending == [tag |-> "pending", e1 |-> NoErr, e2 |-> NoErr]
\* return err (nil when err is the empty chain)
Return(err) == [tag |-> "error", e1 |-> err, e2 |-> NoErr]
\* return fmt.Errorf("%w: %w", a, b)
Errorf2(a, b) == [tag |-> "errorf", e1 |-> a, e2 |-> b]

\* errors.Is(r, target) on a returned value
ResultIs(r, target) ==
    \/ r.tag = "error" /\ ChainIs(r.e1, target)
    \/ r.tag = "errorf" /\ (ChainIs(r.e1, target) \/ ChainIs(r.e2, target))

(***************************************************************************)
(* Durations: time.Duration is a signed integer that wraps on overflow.    *)
(***************************************************************************)
\* two's complement wrap of x into the signed range of a duration
WrapInt(x) == ((x + 2 ^ (DurBits - 1)) % (2 ^ DurBits)) - 2 ^ (DurBits - 1)

\* base << n for an unsigned shift count n: 0 once every bit is shifted out
ShiftLeft(base, n) == IF n >= DurBits THEN 0 ELSE WrapInt(base * 2 ^ n)

(***************************************************************************)
(* Backoffs.  A backoff is the chain of its layers, outermost decorator    *)
(* first and the base generator last.  A layer carries its parameter and   *)
(* its mutable state: the attempt counter (Exponential, WithMaxRetries) or *)
(* the state pair (Fibonacci).                                             *)
(***************************************************************************)
Layer(tag, param, attempt, state) ==
    [tag |-> tag, param |-> param, attempt |-> attempt, state |-> state]

\* the result of a constructor: a backoff, or an error and no backoff
Built(b) == [b |-> b, err |-> NoErr]
Failed(err) == [b |-> << >>, err |-> err]

\* backoff.NewConstant
NewConstant(t) ==
    IF t <= 0
    THEN Failed(<<"constant backoff must be greater than zero">>)
    ELSE Built(<<Layer("Constant", t, 0, <<0, 0>>)>>)

\* backoff.NewExponential
NewExponential(base) ==
    IF base <= 0
    THEN Failed(<<"base must be greater than 0">>)
    ELSE Built(<<Layer("Exponential", base, 0, <<0, 0>>)>>)

\* backoff.NewFibonacci
NewFibonacci(base) ==
    IF base <= 0
    THEN Failed(<<"base must be greater than 0">>)
    ELSE Built(<<Layer("Fibonacci", base, 0, <<0, base>>)>>)

\* backoff.WithMaxRetries: a counter of its own in front of next
WithMaxRetries(max, next) == <<Layer("MaxRetries", max, 0, <<0, 0>>)>> \o next

\* backoff.WithContext: stops once the context is done
WithContext(next) == <<Layer("Context", 0, 0, <<0, 0>>)>> \o next

\* what Next returns, with the layers as Next leaves them
NextResult(val, stop, b) == [val |-> val, stop |-> stop, b |-> b]

\* the constant backoff's BackoffFunc
constantNext(l) == NextResult(l.param, FALSE, <<l>>)

\* mutant of exponentialNext: base is shifted by the attempt, not by attempt - 1
exponentialNext_ShiftByAttempt(l) ==
    LET added == (l.attempt + 1) % UintMod
        next == ShiftLeft(l.param, added)
    IN IF next <= 0
       THEN NextResult(MaxInt, FALSE,
                       <<[l EXCEPT !.attempt = (added + UintMod - 1) % UintMod]>>)
       ELSE NextResult(next, FALSE, <<[l EXCEPT !.attempt = added]>>)

\* (*exponentialBackoff).Next, called by one caller at a time
exponentialNext(l) ==
    LET added == (l.attempt + 1) % UintMod
        next == ShiftLeft(l.param, (added + UintMod - 1) % UintMod)
    IN IF next <= 0
       THEN NextResult(MaxInt, FALSE,
                       <<[l EXCEPT !.attempt = (added + UintMod - 1) % UintMod]>>)
       ELSE NextResult(next, FALSE, <<[l EXCEPT !.attempt = added]>>)

\* mutant of fibonacciNext: the current term is returned, not the new one
fibonacciNext_ReturnsCurrent(l) ==
    LET next == WrapInt(l.state[1] + l.state[2])
    IN IF next <= 0
       THEN NextResult(MaxInt, FALSE, <<l>>)
       ELSE NextResult(l.state[2], FALSE,
                       <<[l EXCEPT !.state = <<l.state[2], next>>]>>)

\* (*fibonacciBackoff).Next, called by one caller at a time
fibonacciNext(l) ==
    LET next == WrapInt(l.state[1] + l.state[2])
    IN IF next <= 0
       THEN NextResult(MaxInt, FALSE, <<l>>)
       ELSE NextResult(next, FALSE, <<[l EXCEPT !.state = <<l.state[2], next>>]>>)

\* mutant of nextWithMaxRetries: the counter is compared with > instead of >=
nextWithMaxRetries_OffByOne(l, b, in) ==
    IF l.attempt > l.param
    THEN NextResult(0, TRUE, b)
    ELSE LET counted == <<[l EXCEPT !.attempt = @ + 1]>> \o in.b
         IN IF in.stop
            THEN NextResult(0, TRUE, counted)
            ELSE NextResult(in.val, FALSE, counted)

\* mutant of nextWithMaxRetries: the value of next.Next() is dropped
nextWithMaxRetries_NoValue(l, b, in) ==
    IF l.attempt >= l.param
    THEN NextResult(0, TRUE, b)
    ELSE LET counted == <<[l EXCEPT !.attempt = @ + 1]>> \o in.b
         IN NextResult(0, in.stop, counted)

\* mutant of nextWithMaxRetries: next.Next() is called at the limit too
nextWithMaxRetries_CallsInner(l, b, in) ==
    IF l.attempt >= l.param
    THEN NextResult(0, TRUE, <<l>> \o in.b)
    ELSE LET counted == <<[l EXCEPT !.attempt = @ + 1]>> \o in.b
         IN IF in.stop
            THEN NextResult(0, TRUE, counted)
            ELSE NextResult(in.val, FALSE, counted)

\* the BackoffFunc of WithMaxRetries; in is what next.Next() returns
nextWithMaxRetries(l, b, in) ==
    IF l.attempt >= l.param
    THEN NextResult(0, TRUE, b)
    ELSE LET counted == <<[l EXCEPT !.attempt = @ + 1]>> \o in.b
         IN IF in.stop
            THEN NextResult(0, TRUE, counted)
            ELSE NextResult(in.val, FALSE, counted)

\* mutant of nextWithContext: next.Next() is called before ctx.Done() is read
nextWithContext_InnerFirst(l, b, in, done) ==
    IF done
    THEN NextResult(0, TRUE, <<l>> \o in.b)
    ELSE NextResult(in.val, in.stop, <<l>> \o in.b)

\* the BackoffFunc of WithContext; done tells whether ctx.Done() is closed
nextWithContext(l, b, in, done) ==
    IF done
    THEN NextResult(0, TRUE, b)
    ELSE NextResult(in.val, in.stop, <<l>> \o in.b)

\* backoff.WithCappedDuration: a cap on each value of next
WithCappedDuration(cap, next) == <<Layer("Capped", cap, 0, <<0, 0>>)>> \o next

\* mutant of nextWithCappedDuration: the comparison with cap is reversed
nextWithCappedDuration_Reversed(l, b, in) ==
    IF in.stop
    THEN NextResult(0, TRUE, <<l>> \o in.b)
    ELSE IF in.val <= 0 \/ in.val < l.param
         THEN NextResult(l.param, FALSE, <<l>> \o in.b)
         ELSE NextResult(in.val, FALSE, <<l>> \o in.b)

\* mutant of nextWithCappedDuration: the cap is put in the place of a value
\* that equals it, too
nextWithCappedDuration_FromCap(l, b, in) ==
    IF in.stop
    THEN NextResult(0, TRUE, <<l>> \o in.b)
    ELSE IF in.val <= 0 \/ in.val >= l.param - 1
         THEN NextResult(l.param, FALSE, <<l>> \o in.b)
         ELSE NextResult(in.val, FALSE, <<l>> \o in.b)

\* the BackoffFunc of WithCappedDuration; in is what next.Next() returns
nextWithCappedDuration(l, b, in) ==
    IF in.stop
    THEN NextResult(0, TRUE, <<l>> \o in.b)
    ELSE IF in.val <= 0 \/ in.val > l.param
         THEN NextResult(l.param, FALSE, <<l>> \o in.b)
         ELSE NextResult(in.val, FALSE, <<l>> \o in.b)

\* what Next is called in: whether ctx.Done() is closed, what time.Now()
\* reads, what the random source's Int63 draws, and what the conversion of
\* an out-of-range float64 to int64 gives on the platform
Env(done, now, rnd, conv) == [done |-> done, now |-> now, rnd |-> rnd, conv |-> conv]

\* a Next that panics: no result, the layers as they were
Panic(b) == [val |-> 0, stop |-> FALSE, b |-> b, panic |-> TRUE]
Panicked(r) == "panic" \in DOMAIN r

\* backoff.ErrInvalidJitter, backoff.ErrInvalidJitterPercent
ErrInvalidJitter == <<"invalid jitter: must be a positive value">>
ErrInvalidJitterPercent == <<"invalid jitter percent: must be > 0 and <= 100">>

\* random.LockedSource.Int63n on the draw rnd of Int63: a draw above max is
\* drawn again, so every value of 0..n-1 and no other can come out; n > 0
Int63n(n, rnd) == rnd % n

\* backoff.WithJitter: +/- j on each value of next
WithJitter(j, next) ==
    IF j <= 0
    THEN Failed(ErrInvalidJitter)
    ELSE Built(<<Layer("Jitter", j, 0, <<0, 0>>)>> \o next)

\* mutant of nextWithJitter: the value of next goes through unchanged
nextWithJitter_NoDiff(l, b, in, env) ==
    IF in.stop
    THEN NextResult(0, TRUE, <<l>> \o in.b)
    ELSE NextResult(in.val, FALSE, <<l>> \o in.b)

\* the BackoffFunc of WithJitter; Int63n panics when int64(j)*2 is not positive
nextWithJitter(l, b, in, env) ==
    IF in.stop
    THEN NextResult(0, TRUE, <<l>> \o in.b)
    ELSE LET n == WrapInt(l.param * 2)
         IN IF n <= 0
            THEN Panic(<<l>> \o in.b)
            ELSE LET diff == Int63n(n, env.rnd) - l.param
                     val == WrapInt(in.val + diff)
                 IN NextResult(IF val < 0 THEN 0 ELSE val, FALSE, <<l>> \o in.b)

\* mutant of WithJitterPercent: a percentage above 100 is accepted
WithJitterPercent_NoUpperTest(j, next) ==
    IF j <= 0
    THEN Failed(ErrInvalidJitterPercent)
    ELSE Built(<<Layer("JitterPercent", j, 0, <<0, 0>>)>> \o next)

\* backoff.WithJitterPercent: +/- j percent on each value of next; j is a uint64
WithJitterPercent(j, next) ==
    IF j <= 0 \/ j > 100
    THEN Failed(ErrInvalidJitterPercent)
    ELSE Built(<<Layer("JitterPercent", j, 0, <<0, 0>>)>> \o next)

\* the quotient of Go's conversion of a float64 to an integer: towards zero
TruncDiv(x, y) == IF x >= 0 THEN x \div y ELSE -((-x) \div y)

\* the BackoffFunc of WithJitterPercent: val * (1 - top/100), converted back
\* to a time.Duration
nextWithJitterPercent(l, b, in, env) ==
    IF in.stop
    THEN NextResult(0, TRUE, <<l>> \o in.b)
    ELSE LET top == Int63n(l.param * 2, env.rnd) - l.param
             scaled == TruncDiv(in.val * (100 - top), 100)
             val == IF scaled > MaxInt \/ scaled < -MaxInt - 1
                    THEN env.conv
                    ELSE scaled
         IN NextResult(IF val < 0 THEN 0 ELSE val, FALSE, <<l>> \o in.b)

\* backoff.WithMaxDuration, called at the time now: the state is start
WithMaxDuration(timeout, next, now) ==
    <<Layer("MaxDuration", timeout, 0, <<now, 0>>)>> \o next

\* mutant of nextWithMaxDuration: the elapsed time is not taken off timeout
nextWithMaxDuration_WholeTimeout(l, b, in, env) ==
    LET diff == l.param
    IN IF WrapInt(l.param - (env.now - l.state[1])) <= 0
       THEN NextResult(0, TRUE, b)
       ELSE IF in.stop
            THEN NextResult(0, TRUE, <<l>> \o in.b)
            ELSE IF in.val <= 0 \/ in.val > diff
                 THEN NextResult(diff, FALSE, <<l>> \o in.b)
                 ELSE NextResult(in.val, FALSE, <<l>> \o in.b)

\* the BackoffFunc of WithMaxDuration: diff is timeout - time.Since(start)
nextWithMaxDuration(l, b, in, env) ==
    LET diff == WrapInt(l.param - (env.now - l.state[1]))
    IN IF diff <= 0
       THEN NextResult(0, TRUE, b)
       ELSE IF in.stop
            THEN NextResult(0, TRUE, <<l>> \o in.b)
            ELSE IF in.val <= 0 \/ in.val > diff
                 THEN NextResult(diff, FALSE, <<l>> \o in.b)
                 ELSE NextResult(in.val, FALSE, <<l>> \o in.b)

\* the rebuild closures handed to WithReset: func() Backoff that returns a
\* new generator, written as the pair of the constructor and its argument
RebuildConstant(t) == <<1, t>>
RebuildExponential(base) == <<2, base>>
RebuildFibonacci(base) == <<3, base>>

\* what the rebuild closure returns
Rebuild(reset) ==
    CASE reset[1] = 1 -> NewConstant(reset[2]).b
      [] reset[1] = 2 -> NewExponential(reset[2]).b
      [] reset[1] = 3 -> NewFibonacci(reset[2]).b

\* backoff.WithReset with a rebuild closure of the caller: a
\* ResettableBackoff{Backoff: next} whose reset stores what reset() returns
WithReset(reset, next) == <<Layer("Reset", 0, 0, reset)>> \o next

\* (*ResettableBackoff).Next: b.Backoff.Next()
resettableNext(l, b, in) == NextResult(in.val, in.stop, <<l>> \o in.b)

\* Backoff.Next on a chain, each layer calling the layer it wraps.  A panic
\* of next.Next() is not carried through a decorator: the chains of the
\* model have WithJitter and WithJitterPercent outermost.
RECURSIVE BackoffNextIn(_, _)
BackoffNextIn(b, env) ==
    LET l == Head(b)
    IN CASE l.tag = "Constant" -> constantNext(l)
         [] l.tag = "Exponential" -> exponentialNext(l)
         [] l.tag = "Fibonacci" -> fibonacciNext(l)
         [] l.tag = "MaxRetries" ->
                nextWithMaxRetries(l, b, BackoffNextIn(Tail(b), env))
         [] l.tag = "Context" ->
                nextWithContext(l, b, BackoffNextIn(Tail(b), env), env.done)
         [] l.tag = "Capped" ->
                nextWithCappedDuration(l, b, BackoffNextIn(Tail(b), env))
         [] l.tag = "MaxDuration" ->
                nextWithMaxDuration(l, b, BackoffNextIn(Tail(b), env), env)
         [] l.tag = "Jitter" ->
                nextWithJitter(l, b, BackoffNextIn(Tail(b), env), env)
         [] l.tag = "JitterPercent" ->
                nextWithJitterPercent(l, b, BackoffNextIn(Tail(b), env), env)
         [] l.tag = "Reset" ->
                resettableNext(l, b, BackoffNextIn(Tail(b), env))

\* Backoff.Next on a chain of an executor: no clock and no random source
\* are read by the layers of such a chain
BackoffNext(b, done) == BackoffNextIn(b, Env(done, 0, 0, 0))

\* mutant of exponentialReset: the counter is left as it is
exponentialReset_Kept(l) == l

\* (*exponentialBackoff).Reset
exponentialReset(l) == [l EXCEPT !.attempt = 0]

\* mutant of fibonacciReset: the state pair is left as it is
fibonacciReset_Kept(l) == l

\* (*fibonacciBackoff).Reset
fibonacciReset(l) == [l EXCEPT !.state = <<0, l.param>>]

\* mutant of resetWithMaxRetries: the counter is not set back to 0
resetWithMaxRetries_CounterKept(l, rest) == <<l>> \o rest

\* the reset of WithMaxRetries: attempt = 0, then next.Reset(); rest is next
\* after its Reset
resetWithMaxRetries(l, rest) == <<[l EXCEPT !.attempt = 0]>> \o rest

\* the reset of WithCappedDuration: next.Reset()
resetWithCappedDuration(l, rest) == <<l>> \o rest

\* mutant of resetWithMaxDuration: start is left as it is
resetWithMaxDuration_StartKept(l, rest, now) == <<l>> \o rest

\* the reset of WithMaxDuration: start = time.Now(), then next.Reset()
resetWithMaxDuration(l, rest, now) == <<[l EXCEPT !.state = <<now, 0>>]>> \o rest

\* the reset of WithJitter and of WithJitterPercent: next.Reset()
resetWithJitter(l, rest) == <<l>> \o rest

\* mutant of resettableReset: the chain wrapped before is reset and kept
resettableReset_KeepsChain(l, rest) == <<l>> \o rest

\* (*ResettableBackoff).Reset of a WithReset of the caller: the wrapper's
\* Backoff becomes what the rebuild closure returns
resettableReset(l, rest) == <<l>> \o Rebuild(l.state)

\* Backoff.Reset on a chain at the time now: a BackoffFunc (Constant,
\* WithContext) has an empty Reset, a ResettableBackoff runs the reset of its
\* decorator
RECURSIVE BackoffResetAt(_, _)
BackoffResetAt(b, now) ==
    LET l == Head(b)
    IN CASE l.tag = "Constant" -> b
         [] l.tag = "Exponential" -> <<exponentialReset(l)>>
         [] l.tag = "Fibonacci" -> <<fibonacciReset(l)>>
         [] l.tag = "MaxRetries" ->
                resetWithMaxRetries(l, BackoffResetAt(Tail(b), now))
         [] l.tag = "Capped" ->
                resetWithCappedDuration(l, BackoffResetAt(Tail(b), now))
         [] l.tag = "Context" -> b
         [] l.tag = "MaxDuration" ->
                resetWithMaxDuration(l, BackoffResetAt(Tail(b), now), now)
         [] l.tag \in {"Jitter", "JitterPercent"} ->
                resetWithJitter(l, BackoffResetAt(Tail(b), now))
         [] l.tag = "Reset" ->
                resettableReset(l, BackoffResetAt(Tail(b), now))

\* Backoff.Reset on a chain without a clock
BackoffReset(b) == BackoffResetAt(b, 0)

\* mutant of resettableReplaced: Reset is called on the replaced backoff
resettableReplaced_Reset(l, rest) == BackoffReset(rest)

\* (*ResettableBackoff).Reset of a WithReset of the caller, seen from the
\* backoff it replaces: the assignment to b.Backoff calls nothing on the
\* old value
resettableReplaced(l, rest) == rest

(***************************************************************************)
(* Inputs of the executors.                                                *)
(***************************************************************************)
\* the backoffs handed to Do
Generators ==
    {NewConstant(1).b, NewConstant(2).b, NewExponential(1).b, NewFibonacci(1).b}

Chains ==
    Generators
      \cup {WithMaxRetries(k, NewConstant(1).b) : k \in 0..MaxK}
      \cup {WithContext(NewConstant(1).b)}
      \cup {WithMaxRetries(k, WithContext(NewConstant(1).b)) : k \in 0..MaxK}
      \cup {WithContext(WithMaxRetries(k, NewConstant(1).b)) : k \in 0..MaxK}

\* the durations handed to the convenience wrappers
WrapperArgs == {0, 1}

\* what a RetryFunc may return
OpErrors ==
    {NoErr}
      \cup {<<c>> : c \in Causes}
      \cup {RetryableError(<<c>>) : c \in Causes}
      \cup {RetryableError(RetryableError(<<"e1">>)),
            Errorf1(RetryableError(<<"e2">>))}

(***************************************************************************)
(* State.                                                                  *)
(***************************************************************************)
VARIABLES
    pc,         \* where the executor is: "start" before the call, "done" after its return
    mode,       \* which executor runs: "retry", "repeat" or "untilError" ("none" before the call)
    entry,      \* the function the caller called
    ctxErr,     \* ctx.Err(): NoErr until ctx.Done() is closed
    cancelAt,   \* where the executor was when ctx.Done() was closed ("none" if open)
    b,          \* the backoff the executor borrows
    err,        \* retry, untilError: the error of the last invocation of f
    cont,       \* repeat: the boolean of the last invocation of f
    next,       \* the duration of the last b.Next()
    stop,       \* the stop flag of the last b.Next()
    timer,      \* the timer t: "none", "pending", "fired" or "stopped"
    woke,       \* the case that woke the blocked select: "none", "ctx" or "timer"
    calls,      \* number of invocations of f
    nexts,      \* number of calls of b.Next()
    timers,     \* number of timers created
    rets,       \* what the invocations of f returned, in order
    result,     \* what the executor returned
    \* a backoff called directly by one caller at a time
    sb,         \* the backoff
    outs,       \* the <<value, stop>> of its Next calls since it was built or last reset
    prevOuts,   \* the same for the calls before the last Reset
    resets,     \* number of Reset calls
    made,       \* the constructor call that built it: its name, argument and result
    now,        \* what time.Now() reads, in ticks since the construction
    panicked,   \* whether a Next call panicked
    old,        \* the backoff handed to WithReset, which its caller still
                \* holds, once Reset has replaced it in the wrapper
    oldOuts,    \* what the Next calls on that backoff returned, <<val, stop>>
    \* one base generator shared by concurrent callers of Next
    shared,     \* the generator: its attempt counter or its state pointer and pair
    callers,    \* per caller, where it is in Next and its local variables
    hist        \* what the finished Next calls returned, in the order of their return

\* the variables of the executor
execVars == <<pc, mode, entry, ctxErr, cancelAt, b, err, cont, next, stop,
              timer, woke, calls, nexts, timers, rets, result>>

\* the variables of the backoff called directly
seqVars == <<sb, outs, prevOuts, resets, made, now, panicked, old, oldOuts>>

\* the variables of the shared generator
conVars == <<shared, callers, hist>>

vars == <<execVars, seqVars, conVars>>

\* no backoff is called directly
SeqIdle ==
    /\ sb = << >>
    /\ outs = << >>
    /\ prevOuts = << >>
    /\ resets = 0
    /\ made = [ctor |-> "none", arg |-> 0, res |-> Failed(NoErr)]
    /\ now = 0
    /\ panicked = FALSE
    /\ old = << >>
    /\ oldOuts = << >>

\* no generator is shared
ConIdle ==
    /\ shared = << >>
    /\ callers = << >>
    /\ hist = << >>

\* no executor was called
ExecInit ==
    /\ pc = "start"
    /\ mode = "none"
    /\ entry = "none"
    /\ ctxErr = NoErr
    /\ cancelAt = "none"
    /\ b = << >>
    /\ err = NoErr
    /\ cont = FALSE
    /\ next = 0
    /\ stop = FALSE
    /\ timer = "none"
    /\ woke = "none"
    /\ calls = 0
    /\ nexts = 0
    /\ timers = 0
    /\ rets = << >>
    /\ result = Pending

Init == ExecInit /\ SeqIdle /\ ConIdle

\* ctx.Done() is closed
Done == ctxErr # NoErr

(***************************************************************************)
(* The environment: cancellation of the context and the runtime's timer.   *)
(* A goroutine blocked in a select is woken by the first case that becomes *)
(* ready, and runs that case.                                              *)
(***************************************************************************)
\* cancel() or the deadline of ctx, while the executor has not returned
Cancel(cause) ==
    /\ pc # "done"
    /\ ctxErr = NoErr
    /\ ctxErr' = cause
    /\ cancelAt' = pc
    /\ woke' = IF pc = "blocked" /\ woke = "none" THEN "ctx" ELSE woke
    /\ UNCHANGED <<pc, mode, entry, b, err, cont, next, stop, timer, calls,
                   nexts, timers, rets, result, seqVars, conVars>>

\* the timer t expires and sends on t.C
TimerFire ==
    /\ timer = "pending"
    /\ timer' = "fired"
    /\ woke' = IF pc = "blocked" /\ woke = "none" THEN "timer" ELSE woke
    /\ UNCHANGED <<pc, mode, entry, ctxErr, cancelAt, b, err, cont, next,
                   stop, calls, nexts, timers, rets, result, seqVars, conVars>>

(***************************************************************************)
(* The loop shared by the executors: the cancellation checks, the call of  *)
(* b.Next(), the timer and the wait.                                       *)
(***************************************************************************)
\* the executor is called with backoff b0
Enter(m, e, b0) ==
    /\ pc = "start"
    /\ pc' = "top"
    /\ mode' = m
    /\ entry' = e
    /\ b' = b0
    /\ UNCHANGED <<ctxErr, cancelAt, err, cont, next, stop, timer, woke,
                   calls, nexts, timers, rets, result, seqVars, conVars>>

\* a convenience wrapper whose constructor failed returns the wrapped error
FailConstruct(m, e, cerr) ==
    /\ pc = "start"
    /\ pc' = "done"
    /\ mode' = m
    /\ entry' = e
    /\ result' = Return(Errorf1(cerr))
    /\ UNCHANGED <<ctxErr, cancelAt, b, err, cont, next, stop, timer, woke,
                   calls, nexts, timers, rets, seqVars, conVars>>

\* mutant of CheckCancel: ctx.Err() is wrapped before it is returned
CheckCancel_Wrapped(from, to) ==
    /\ pc = from
    /\ IF Done
       THEN pc' = "done" /\ result' = Return(Errorf1(ctxErr))
       ELSE pc' = to /\ UNCHANGED result
    /\ UNCHANGED <<mode, entry, ctxErr, cancelAt, b, err, cont, next, stop,
                   timer, woke, calls, nexts, timers, rets, seqVars, conVars>>

\* select { case <-ctx.Done(): return ctx.Err(); default: }
CheckCancel(from, to) ==
    /\ pc = from
    /\ IF Done
       THEN pc' = "done" /\ result' = Return(ctxErr)
       ELSE pc' = to /\ UNCHANGED result
    /\ UNCHANGED <<mode, entry, ctxErr, cancelAt, b, err, cont, next, stop,
                   timer, woke, calls, nexts, timers, rets, seqVars, conVars>>

\* f(ctx) is called; it runs until it returns
Invoke ==
    /\ pc = "call"
    /\ calls < MaxCalls \/ Done
    /\ pc' = "inF"
    /\ calls' = calls + 1
    /\ UNCHANGED <<mode, entry, ctxErr, cancelAt, b, err, cont, next, stop,
                   timer, woke, nexts, timers, rets, result, seqVars, conVars>>

\* mutant of CallNext: a stop of the backoff is reported as the cancellation
\* when ctx is done
CallNext_CancelFirst(exhausted) ==
    /\ pc = "next"
    /\ LET r == BackoffNext(b, Done)
       IN /\ b' = r.b
          /\ next' = r.val
          /\ stop' = r.stop
          /\ nexts' = nexts + 1
          /\ IF r.stop
             THEN pc' = "done"
                  /\ result' = IF Done THEN Return(ctxErr) ELSE exhausted
             ELSE pc' = "check" /\ UNCHANGED result
    /\ UNCHANGED <<mode, entry, ctxErr, cancelAt, err, cont, timer, woke,
                   calls, timers, rets, seqVars, conVars>>

\* mutant of CallNext: the backoff is reset when it has stopped
CallNext_ResetOnStop(exhausted) ==
    /\ pc = "next"
    /\ LET r == BackoffNext(b, Done)
       IN /\ b' = IF r.stop THEN BackoffReset(r.b) ELSE r.b
          /\ next' = r.val
          /\ stop' = r.stop
          /\ nexts' = nexts + 1
          /\ IF r.stop
             THEN pc' = "done" /\ result' = exhausted
             ELSE pc' = "check" /\ UNCHANGED result
    /\ UNCHANGED <<mode, entry, ctxErr, cancelAt, err, cont, timer, woke,
                   calls, timers, rets, seqVars, conVars>>

\* next, stop := b.Next(); if stop { return exhausted }
CallNext(exhausted) ==
    /\ pc = "next"
    /\ LET r == BackoffNext(b, Done)
       IN /\ b' = r.b
          /\ next' = r.val
          /\ stop' = r.stop
          /\ nexts' = nexts + 1
          /\ IF r.stop
             THEN pc' = "done" /\ result' = exhausted
             ELSE pc' = "check" /\ UNCHANGED result
    /\ UNCHANGED <<mode, entry, ctxErr, cancelAt, err, cont, timer, woke,
                   calls, timers, rets, seqVars, conVars>>

\* t := time.NewTimer(next)
NewTimer ==
    /\ pc = "timer"
    /\ pc' = "select"
    /\ timer' = "pending"
    /\ timers' = timers + 1
    /\ UNCHANGED <<mode, entry, ctxErr, cancelAt, b, err, cont, next, stop,
                   woke, calls, nexts, rets, result, seqVars, conVars>>

\* t.Stop(): a pending timer is removed, a fired one stays fired
Stop(t) == IF t = "pending" THEN "stopped" ELSE t

\* mutant of SelectDone: the timer is not stopped
SelectDone_NoStop ==
    /\ timer' = timer
    /\ pc' = "done"
    /\ result' = Return(ctxErr)
    /\ woke' = woke

\* case <-ctx.Done(): t.Stop(); return ctx.Err()
SelectDone ==
    /\ timer' = Stop(timer)
    /\ pc' = "done"
    /\ result' = Return(ctxErr)
    /\ woke' = woke

\* case <-t.C: continue
SelectTimer ==
    /\ timer' = "none"
    /\ pc' = "top"
    /\ woke' = "none"
    /\ UNCHANGED result

\* the select on ctx.Done() and t.C is reached: a ready case runs (any of
\* them when both are ready), and with no ready case the goroutine blocks
Select ==
    /\ pc = "select"
    /\ \/ Done /\ SelectDone
       \/ timer = "fired" /\ SelectTimer
       \/ /\ ~Done
          /\ timer # "fired"
          /\ pc' = "blocked"
          /\ UNCHANGED <<timer, woke, result>>
    /\ UNCHANGED <<mode, entry, ctxErr, cancelAt, b, err, cont, next, stop,
                   calls, nexts, timers, rets, seqVars, conVars>>

\* the blocked select resumes with the case that woke it
Wake ==
    /\ pc = "blocked"
    /\ \/ woke = "ctx" /\ SelectDone
       \/ woke = "timer" /\ SelectTimer
    /\ UNCHANGED <<mode, entry, ctxErr, cancelAt, b, err, cont, next, stop,
                   calls, nexts, timers, rets, seqVars, conVars>>

(***************************************************************************)
(* retry.Do and its convenience wrappers.                                  *)
(***************************************************************************)
\* retry.Do is called
Do(b0) == Enter("retry", "Do", b0)

\* retry.ConstantRetry
ConstantRetry(t) ==
    LET c == NewConstant(t)
    IN IF c.err # NoErr
       THEN FailConstruct("retry", "ConstantRetry", c.err)
       ELSE Enter("retry", "ConstantRetry", c.b)

\* retry.ExponentialRetry
ExponentialRetry(base) ==
    LET c == NewExponential(base)
    IN IF c.err # NoErr
       THEN FailConstruct("retry", "ExponentialRetry", c.err)
       ELSE Enter("retry", "ExponentialRetry", c.b)

\* retry.FibonacciRetry
FibonacciRetry(base) ==
    LET c == NewFibonacci(base)
    IN IF c.err # NoErr
       THEN FailConstruct("retry", "FibonacciRetry", c.err)
       ELSE Enter("retry", "FibonacciRetry", c.b)

\* mutant of DoCheckCancel: the loop starts without the check
DoCheckCancel_Skipped ==
    /\ mode = "retry"
    /\ pc = "top"
    /\ pc' = "call"
    /\ UNCHANGED <<mode, entry, ctxErr, cancelAt, b, err, cont, next, stop,
                   timer, woke, calls, nexts, timers, rets, result, seqVars,
                   conVars>>

\* the check at the top of the loop
DoCheckCancel == mode = "retry" /\ CheckCancel("top", "call")

\* err := f(ctx), the call
DoInvoke == mode = "retry" /\ Invoke

\* err := f(ctx), the return of f with error e
DoReturn(e) ==
    /\ mode = "retry"
    /\ pc = "inF"
    /\ pc' = "classify"
    /\ err' = e
    /\ rets' = Append(rets, e)
    /\ UNCHANGED <<mode, entry, ctxErr, cancelAt, b, cont, next, stop, timer,
                   woke, calls, nexts, timers, result, seqVars, conVars>>

\* mutant of NonRetryable: the error of f is dropped
NonRetryable_SentinelOnly(e) == Return(ErrNonRetryable)

\* fmt.Errorf("%w: %w", ErrNonRetryable, err)
NonRetryable(e) == Errorf2(ErrNonRetryable, e)

\* mutant of BackoffExhausted: the cause of the first invocation is kept
BackoffExhausted_FirstCause(e) ==
    Errorf2(errBackoffSignaledToStop, Unwrap(AsRetryable(rets[1])))

\* fmt.Errorf("%w: %w", errBackoffSignaledToStop, rerr.Unwrap())
BackoffExhausted(e) == Errorf2(errBackoffSignaledToStop, Unwrap(AsRetryable(e)))

\* mutant of DoClassify: without the test of err == nil
DoClassify_NoNilTest ==
    /\ mode = "retry"
    /\ pc = "classify"
    /\ IF ~IsRetryable(err)
       THEN pc' = "done" /\ result' = NonRetryable(err)
       ELSE pc' = "next" /\ UNCHANGED result
    /\ UNCHANGED <<mode, entry, ctxErr, cancelAt, b, err, cont, next, stop,
                   timer, woke, calls, nexts, timers, rets, seqVars, conVars>>

\* mutant of DoClassify: a canceled ctx is reported before f's error is looked at
DoClassify_CancelFirst ==
    /\ mode = "retry"
    /\ pc = "classify"
    /\ IF Done
       THEN pc' = "done" /\ result' = Return(ctxErr)
       ELSE IF err = NoErr
            THEN pc' = "done" /\ result' = Return(NoErr)
            ELSE IF ~IsRetryable(err)
                 THEN pc' = "done" /\ result' = NonRetryable(err)
                 ELSE pc' = "next" /\ UNCHANGED result
    /\ UNCHANGED <<mode, entry, ctxErr, cancelAt, b, err, cont, next, stop,
                   timer, woke, calls, nexts, timers, rets, seqVars, conVars>>

\* if err == nil { return nil }; if !errors.As(err, &rerr) { return ... }
DoClassify ==
    /\ mode = "retry"
    /\ pc = "classify"
    /\ IF err = NoErr
       THEN pc' = "done" /\ result' = Return(NoErr)
       ELSE IF ~IsRetryable(err)
            THEN pc' = "done" /\ result' = NonRetryable(err)
            ELSE pc' = "next" /\ UNCHANGED result
    /\ UNCHANGED <<mode, entry, ctxErr, cancelAt, b, err, cont, next, stop,
                   timer, woke, calls, nexts, timers, rets, seqVars, conVars>>

\* the call of b.Next() and the return when it stops
DoBackoff == mode = "retry" /\ CallNext(BackoffExhausted(err))

\* the check before the wait
DoRecheck == mode = "retry" /\ CheckCancel("check", "timer")

\* the timer of the wait
DoNewTimer == mode = "retry" /\ NewTimer

\* the wait
DoSelect == mode = "retry" /\ Select

\* the end of a wait that blocked
DoWake == mode = "retry" /\ Wake

(***************************************************************************)
(* repeat.Do.                                                              *)
(***************************************************************************)
\* repeat.Do is called
RepeatDo(b0) == Enter("repeat", "Do", b0)

RepeatCheckCancel == mode = "repeat" /\ CheckCancel("top", "call")

\* f(ctx), the call
RepeatInvoke == mode = "repeat" /\ Invoke

\* f(ctx), the return of f with boolean r
RepeatReturn(r) ==
    /\ mode = "repeat"
    /\ pc = "inF"
    /\ pc' = "classify"
    /\ cont' = r
    /\ rets' = Append(rets, r)
    /\ UNCHANGED <<mode, entry, ctxErr, cancelAt, b, err, next, stop, timer,
                   woke, calls, nexts, timers, result, seqVars, conVars>>

\* mutant of RepeatClassify: the negation is missing
RepeatClassify_Inverted ==
    /\ mode = "repeat"
    /\ pc = "classify"
    /\ IF cont
       THEN pc' = "done" /\ result' = Return(ErrFunctionSignaledToStop)
       ELSE pc' = "next" /\ UNCHANGED result
    /\ UNCHANGED <<mode, entry, ctxErr, cancelAt, b, err, cont, next, stop,
                   timer, woke, calls, nexts, timers, rets, seqVars, conVars>>

\* if !f(ctx) { return ErrFunctionSignaledToStop }
RepeatClassify ==
    /\ mode = "repeat"
    /\ pc = "classify"
    /\ IF ~cont
       THEN pc' = "done" /\ result' = Return(ErrFunctionSignaledToStop)
       ELSE pc' = "next" /\ UNCHANGED result
    /\ UNCHANGED <<mode, entry, ctxErr, cancelAt, b, err, cont, next, stop,
                   timer, woke, calls, nexts, timers, rets, seqVars, conVars>>

RepeatBackoff == mode = "repeat" /\ CallNext(Return(ErrBackoffSignaledToStop))

\* mutant of RepeatRecheck: the wait starts without the check
RepeatRecheck_Skipped ==
    /\ mode = "repeat"
    /\ pc = "check"
    /\ pc' = "timer"
    /\ UNCHANGED <<mode, entry, ctxErr, cancelAt, b, err, cont, next, stop,
                   timer, woke, calls, nexts, timers, rets, result, seqVars,
                   conVars>>

RepeatRecheck == mode = "repeat" /\ CheckCancel("check", "timer")

RepeatNewTimer == mode = "repeat" /\ NewTimer

RepeatSelect == mode = "repeat" /\ Select

RepeatWake == mode = "repeat" /\ Wake

(***************************************************************************)
(* repeat.DoUntilError.                                                    *)
(***************************************************************************)
\* what a RepeatUntilErrorFunc may return
UntilErrors == {NoErr, <<"e1">>, <<"e2">>, RetryableError(<<"e1">>)}

\* repeat.DoUntilError is called
DoUntilError(b0) == Enter("untilError", "DoUntilError", b0)

UntilCheckCancel == mode = "untilError" /\ CheckCancel("top", "call")

\* f(ctx), the call
UntilInvoke == mode = "untilError" /\ Invoke

\* f(ctx), the return of f with error e
UntilReturn(e) ==
    /\ mode = "untilError"
    /\ pc = "inF"
    /\ pc' = "classify"
    /\ err' = e
    /\ rets' = Append(rets, e)
    /\ UNCHANGED <<mode, entry, ctxErr, cancelAt, b, cont, next, stop, timer,
                   woke, calls, nexts, timers, result, seqVars, conVars>>

\* fmt.Errorf("%w: %w", ErrFunctionSignaledToStop, err)
FunctionStopped(e) == Errorf2(ErrFunctionSignaledToStop, e)

\* mutant of UntilClassify: the error of f is not wrapped into the result
UntilClassify_BareSentinel ==
    /\ mode = "untilError"
    /\ pc = "classify"
    /\ IF err # NoErr
       THEN pc' = "done" /\ result' = Return(ErrFunctionSignaledToStop)
       ELSE pc' = "next" /\ UNCHANGED result
    /\ UNCHANGED <<mode, entry, ctxErr, cancelAt, b, err, cont, next, stop,
                   timer, woke, calls, nexts, timers, rets, seqVars, conVars>>

\* if err := f(ctx); err != nil { return fmt.Errorf(...) }
UntilClassify ==
    /\ mode = "untilError"
    /\ pc = "classify"
    /\ IF err # NoErr
       THEN pc' = "done" /\ result' = FunctionStopped(err)
       ELSE pc' = "next" /\ UNCHANGED result
    /\ UNCHANGED <<mode, entry, ctxErr, cancelAt, b, err, cont, next, stop,
                   timer, woke, calls, nexts, timers, rets, seqVars, conVars>>

UntilBackoff == mode = "untilError" /\ CallNext(Return(ErrBackoffSignaledToStop))

UntilRecheck == mode = "untilError" /\ CheckCancel("check", "timer")

UntilNewTimer == mode = "untilError" /\ NewTimer

UntilSelect == mode = "untilError" /\ Select

UntilWake == mode = "untilError" /\ Wake

(***************************************************************************)
(* Specifications.                                                         *)
(***************************************************************************)
\* the steps of the executor's goroutine
Step ==
    \/ DoCheckCancel
    \/ DoInvoke
    \/ \E e \in OpErrors : DoReturn(e)
    \/ DoClassify
    \/ DoBackoff
    \/ DoRecheck
    \/ DoNewTimer
    \/ DoSelect
    \/ DoWake
    \/ RepeatCheckCancel
    \/ RepeatInvoke
    \/ \E r \in BOOLEAN : RepeatReturn(r)
    \/ RepeatClassify
    \/ RepeatBackoff
    \/ RepeatRecheck
    \/ RepeatNewTimer
    \/ RepeatSelect
    \/ RepeatWake
    \/ UntilCheckCancel
    \/ UntilInvoke
    \/ \E e \in UntilErrors : UntilReturn(e)
    \/ UntilClassify
    \/ UntilBackoff
    \/ UntilRecheck
    \/ UntilNewTimer
    \/ UntilSelect
    \/ UntilWake

Next ==
    \/ \E b0 \in Chains : Do(b0)
    \/ \E t \in WrapperArgs : ConstantRetry(t)
    \/ \E t \in WrapperArgs : ExponentialRetry(t)
    \/ \E t \in WrapperArgs : FibonacciRetry(t)
    \/ \E b0 \in Chains : RepeatDo(b0)
    \/ \E b0 \in Chains : DoUntilError(b0)
    \/ \E cause \in CtxCauses : Cancel(cause)
    \/ TimerFire
    \/ Step

Spec == Init /\ [][Next]_vars

\* the executor's goroutine keeps running, user operations return and the
\* runtime fires the timers
LiveSpec == Spec /\ WF_vars(Step) /\ WF_vars(TimerFire)

(***************************************************************************)
(* retry.Do called twice with one backoff: the caller hands the backoff of *)
(* a call that returned with the backoff's stop to a second call, with the *)
(* same ctx, directly or after b.Reset().                                  *)
(***************************************************************************)
\* retry.Do returned because b.Next() signaled stop
Exhausted ==
    /\ pc = "done"
    /\ result.tag = "errorf"
    /\ result.e1 = errBackoffSignaledToStop

\* a second call of retry.Do with the backoff b1; the variables of the loop
\* are those of the new call
EnterAgain(e, b1) ==
    /\ mode = "retry"
    /\ entry = "Do"
    /\ Exhausted
    /\ pc' = "top"
    /\ entry' = e
    /\ b' = b1
    /\ err' = NoErr
    /\ next' = 0
    /\ stop' = FALSE
    /\ timer' = "none"
    /\ woke' = "none"
    /\ calls' = 0
    /\ nexts' = 0
    /\ timers' = 0
    /\ rets' = << >>
    /\ result' = Pending
    /\ UNCHANGED <<mode, ctxErr, cancelAt, cont, seqVars, conVars>>

\* retry.Do(ctx, b, f) once more
DoAgain == EnterAgain("DoAgain", b)

\* b.Reset(), then retry.Do(ctx, b, f) once more
DoAfterReset == EnterAgain("DoAfterReset", BackoffReset(b))

AgainStep ==
    \/ DoCheckCancel
    \/ DoInvoke
    \/ \E e \in OpErrors : DoReturn(e)
    \/ DoClassify
    \/ DoBackoff
    \/ DoRecheck
    \/ DoNewTimer
    \/ DoSelect
    \/ DoWake

AgainNext ==
    \/ \E b0 \in Chains : Do(b0)
    \/ DoAgain
    \/ DoAfterReset
    \/ \E cause \in CtxCauses : Cancel(cause)
    \/ TimerFire
    \/ AgainStep

AgainSpec == Init /\ [][AgainNext]_vars

TypeOK ==
    /\ pc \in {"start", "top", "call", "inF", "classify", "next", "check",
               "timer", "select", "blocked", "done"}
    /\ timer \in {"none", "pending", "fired", "stopped"}
    /\ woke \in {"none", "ctx", "timer"}
    /\ calls \in 0..(MaxCalls + 1)

(***************************************************************************)
(* A backoff called directly, by one caller at a time: Next and Reset.     *)
(***************************************************************************)
\* the bases of the generators and the caps of WithCappedDuration
SeqBases == {1, 3, 5}
SeqCaps == {-1, 0, 2, 4}

\* the generators, none of which ever stops
SeqGenerators ==
    {NewConstant(1).b, NewConstant(2).b}
      \cup {NewExponential(base).b : base \in SeqBases}
      \cup {NewFibonacci(base).b : base \in SeqBases}

\* the backoffs called directly
SeqChains ==
    SeqGenerators
      \cup {WithMaxRetries(k, g) : k \in 0..MaxK, g \in SeqGenerators}
      \cup {WithCappedDuration(cap, g) : cap \in SeqCaps, g \in SeqGenerators}
      \cup {WithCappedDuration(cap, WithMaxRetries(k, NewFibonacci(1).b)) :
                cap \in SeqCaps, k \in 0..MaxK}
      \cup {WithMaxRetries(k, WithCappedDuration(cap, NewFibonacci(1).b)) :
                cap \in SeqCaps, k \in 0..MaxK}

\* the timeouts of WithMaxDuration, and how far the clock runs
SeqTimeouts == {0, 2, 3}
MaxNow == 4

\* the spreads of WithJitter: the last one doubles to more than MaxInt
SeqSpreads == {1, 2, 2 ^ (DurBits - 2)}
\* the percentages of WithJitterPercent
SeqPercents == {1, 100}
\* Next and Reset calls on a backoff that reads a random source or the clock
MaxShortNexts == 2
MaxShortResets == 1

\* the backoffs with a WithContext
SeqContextChains ==
    {WithContext(NewExponential(1).b), WithContext(NewFibonacci(1).b)}
      \cup {WithMaxRetries(k, WithContext(NewExponential(1).b)) : k \in 1..MaxK}

\* the backoffs with a WithMaxDuration, built at time 0
SeqTimedChains ==
    {WithMaxDuration(t, g, 0) :
         t \in SeqTimeouts,
         g \in {NewConstant(1).b, NewExponential(1).b,
                WithCappedDuration(0, NewConstant(1).b),
                WithMaxRetries(1, NewConstant(1).b)}}

\* the backoffs with a WithReset of the caller: the rebuild closure returns
\* the generator once more, without its decorator
SeqResetChains ==
    {WithReset(RebuildConstant(3), WithCappedDuration(2, NewConstant(3).b)),
     WithReset(RebuildExponential(1), WithCappedDuration(2, NewExponential(1).b)),
     WithReset(RebuildFibonacci(1), WithCappedDuration(2, NewFibonacci(1).b))}

\* a constructor call: the constructor, its first argument, what it returns
Call(ctor, arg, res) == [ctor |-> ctor, arg |-> arg, res |-> res]

\* the arguments handed to the constructors that can fail
SeqBaseArgs == {-1, 0} \cup SeqBases
SeqSpreadArgs == {-1, 0} \cup SeqSpreads
SeqPercentArgs == {0, 101} \cup SeqPercents

\* the constructor calls
SeqCalls ==
    {Call("NewConstant", t, NewConstant(t)) : t \in SeqBaseArgs \cup {2, MaxInt}}
      \cup {Call("NewExponential", t, NewExponential(t)) : t \in SeqBaseArgs}
      \cup {Call("NewFibonacci", t, NewFibonacci(t)) : t \in SeqBaseArgs}
      \cup {Call("WithJitter", j, WithJitter(j, g)) :
                j \in SeqSpreadArgs,
                g \in {NewConstant(2).b, NewConstant(MaxInt).b, NewExponential(5).b}}
      \cup {Call("WithJitterPercent", j, WithJitterPercent(j, NewConstant(1).b)) :
                j \in SeqPercentArgs}
      \cup {Call(c[1].tag, c[1].param, Built(c)) :
                c \in (SeqChains \ SeqGenerators) \cup SeqContextChains
                          \cup SeqTimedChains \cup SeqResetChains}

\* the state before the construction of the backoff
BackoffInit ==
    /\ ExecInit
    /\ ConIdle
    /\ SeqIdle

\* whether a layer of the backoff is one of the given decorators
HasLayer(tags) == \E i \in 1..Len(sb) : sb[i].tag \in tags

\* the construction of the backoff, at time 0
SeqBuild ==
    /\ made.ctor = "none"
    /\ \E c \in SeqCalls :
           /\ made' = c
           /\ sb' = c.res.b
    /\ UNCHANGED <<outs, prevOuts, resets, now, panicked, old, oldOuts,
                   execVars, conVars>>

\* what Int63 may draw and what an out-of-range conversion may give, where
\* a layer of the backoff reads them
Draws ==
    IF HasLayer({"Jitter"}) THEN 0..MaxInt
    ELSE IF HasLayer({"JitterPercent"}) THEN 0..(2 * sb[1].param - 1)
    ELSE {0}
Conversions == IF HasLayer({"JitterPercent"}) THEN {-MaxInt - 1, MaxInt} ELSE {0}

\* how many Next and Reset calls are explored on the backoff
NextsBound ==
    IF HasLayer({"Jitter", "JitterPercent", "MaxDuration"})
    THEN MaxShortNexts
    ELSE MaxNexts
ResetsBound ==
    IF HasLayer({"Jitter", "JitterPercent", "MaxDuration"})
    THEN MaxShortResets
    ELSE MaxResets

\* sb.Next()
SeqNext ==
    /\ sb # << >>
    /\ ~panicked
    /\ Len(outs) < NextsBound
    /\ \E rnd \in Draws, conv \in Conversions :
           LET r == BackoffNextIn(sb, Env(Done, now, rnd, conv))
           IN /\ sb' = r.b
              /\ panicked' = Panicked(r)
              /\ outs' = IF Panicked(r) THEN outs ELSE Append(outs, <<r.val, r.stop>>)
    /\ UNCHANGED <<prevOuts, resets, made, now, old, oldOuts, execVars, conVars>>

\* sb.Reset()
SeqReset ==
    /\ sb # << >>
    /\ ~panicked
    /\ resets < ResetsBound
    /\ sb' = BackoffResetAt(sb, now)
    /\ prevOuts' = outs
    /\ outs' = << >>
    /\ resets' = resets + 1
    /\ IF sb[1].tag = "Reset" /\ old = << >>
       THEN /\ old' = resettableReplaced(sb[1], Tail(sb))
            /\ oldOuts' = outs
       ELSE UNCHANGED <<old, oldOuts>>
    /\ UNCHANGED <<made, now, panicked, execVars, conVars>>

\* Next on the backoff that was handed to WithReset, through the reference
\* its caller kept, after Reset has replaced it in the wrapper
SeqNextOld ==
    /\ old # << >>
    /\ ~panicked
    /\ Len(oldOuts) < MaxNexts
    /\ LET r == BackoffNextIn(old, Env(Done, now, 0, 0))
       IN /\ old' = r.b
          /\ oldOuts' = Append(oldOuts, <<r.val, r.stop>>)
    /\ UNCHANGED <<sb, outs, prevOuts, resets, made, now, panicked,
                   execVars, conVars>>

\* the clock advances; only a WithMaxDuration reads it
SeqTick ==
    /\ HasLayer({"MaxDuration"})
    /\ now < MaxNow
    /\ now' = now + 1
    /\ UNCHANGED <<sb, outs, prevOuts, resets, made, panicked, old, oldOuts,
                   execVars, conVars>>

\* the context of a WithContext is canceled
SeqCancel ==
    /\ HasLayer({"Context"})
    /\ ~Done
    /\ \E cause \in CtxCauses : ctxErr' = cause
    /\ UNCHANGED <<pc, mode, entry, cancelAt, b, err, cont, next, stop, timer,
                   woke, calls, nexts, timers, rets, result, seqVars, conVars>>

BackoffStep ==
    SeqBuild \/ SeqNext \/ SeqReset \/ SeqTick \/ SeqCancel \/ SeqNextOld

BackoffSpec == BackoffInit /\ [][BackoffStep]_vars

(***************************************************************************)
(* One Exponential or Fibonacci generator shared by concurrent callers.    *)
(* A step of a caller holds one atomic access to the generator:            *)
(* Exponential.Next is its AddUint64 and then its shift, test and          *)
(* roll-back; Fibonacci.Next is its LoadPointer and then its               *)
(* CompareAndSwapPointer, repeated while the swap fails.  The pointer of   *)
(* the Fibonacci state is the number of the allocation it points to: a     *)
(* state a caller still refers to is never collected, so every stored      *)
(* state has a pointer no caller holds.                                    *)
(***************************************************************************)
\* the goroutines calling Next
NumCallers == 3
Callers == 1..NumCallers
\* Next calls started on the shared generator: enough to pass the overflow
MaxConCalls == DurBits + 1
\* Reset calls on the shared generator
MaxConResets == 1

\* the shared generators
ConGenerators ==
    {NewExponential(1).b[1], NewExponential(5).b[1],
     NewFibonacci(1).b[1], NewFibonacci(2).b[1]}

\* a caller outside Next
Idle == [pc |-> "idle", attempt |-> 0, curr |-> 0, currState |-> <<0, 0>>,
         next |-> 0]

ConInit ==
    /\ ExecInit
    /\ SeqIdle
    /\ \E g \in ConGenerators : shared = [gen |-> g, ptr |-> 0, resets |-> 0]
    /\ callers = [c \in Callers |-> Idle]
    /\ hist = << >>

\* the Next calls started so far: the returned ones and those under way
InFlight == {c \in Callers : callers[c].pc # "idle"}
Started == Len(hist) + Cardinality(InFlight)

\* exponentialBackoff.Next, the increment: atomic.AddUint64(&b.attempt, 1)
ExpAdd(c) ==
    /\ shared.gen.tag = "Exponential"
    /\ callers[c].pc = "idle"
    /\ Started < MaxConCalls
    /\ LET added == (shared.gen.attempt + 1) % UintMod
       IN /\ shared' = [shared EXCEPT !.gen.attempt = added]
          /\ callers' = [callers EXCEPT ![c] =
                             [Idle EXCEPT !.pc = "shift", !.attempt = added]]
    /\ UNCHANGED <<hist, execVars, seqVars>>

\* exponentialBackoff.Next, the rest: the shift by the caller's own counter
\* value, and on overflow the decrement of the counter and the maximum
ExpShift(c) ==
    /\ shared.gen.tag = "Exponential"
    /\ callers[c].pc = "shift"
    /\ LET shifted == ShiftLeft(shared.gen.param,
                             (callers[c].attempt + UintMod - 1) % UintMod)
       IN IF shifted <= 0
          THEN /\ shared' = [shared EXCEPT !.gen.attempt =
                                 (@ + UintMod - 1) % UintMod]
               /\ hist' = Append(hist, MaxInt)
          ELSE /\ shared' = shared
               /\ hist' = Append(hist, shifted)
    /\ callers' = [callers EXCEPT ![c] = Idle]
    /\ UNCHANGED <<execVars, seqVars>>

\* mutant of FibLoad: on overflow the state moves on before the maximum is
\* returned
FibLoad_StoresOnOverflow(c) ==
    /\ shared.gen.tag = "Fibonacci"
    /\ \/ callers[c].pc = "load"
       \/ callers[c].pc = "idle" /\ Started < MaxConCalls
    /\ LET currState == shared.gen.state
           sum == WrapInt(currState[1] + currState[2])
       IN IF sum <= 0
          THEN /\ hist' = Append(hist, MaxInt)
               /\ callers' = [callers EXCEPT ![c] = Idle]
               /\ shared' = [shared EXCEPT !.gen.state = <<currState[2], MaxInt>>,
                                           !.ptr = @ + 1]
          ELSE /\ hist' = hist
               /\ callers' = [callers EXCEPT ![c] =
                                  [Idle EXCEPT !.pc = "cas",
                                               !.curr = shared.ptr,
                                               !.currState = currState,
                                               !.next = sum]]
               /\ shared' = shared
    /\ UNCHANGED <<execVars, seqVars>>

\* fibonacciBackoff.Next, the head of the loop: atomic.LoadPointer, the sum
\* and the return of the maximum on overflow
FibLoad(c) ==
    /\ shared.gen.tag = "Fibonacci"
    /\ \/ callers[c].pc = "load"
       \/ callers[c].pc = "idle" /\ Started < MaxConCalls
    /\ LET currState == shared.gen.state
           sum == WrapInt(currState[1] + currState[2])
       IN IF sum <= 0
          THEN /\ hist' = Append(hist, MaxInt)
               /\ callers' = [callers EXCEPT ![c] = Idle]
          ELSE /\ hist' = hist
               /\ callers' = [callers EXCEPT ![c] =
                                  [Idle EXCEPT !.pc = "cas",
                                               !.curr = shared.ptr,
                                               !.currState = currState,
                                               !.next = sum]]
    /\ UNCHANGED <<shared, execVars, seqVars>>

\* mutant of FibCAS: the new state keeps the first element of the old one
FibCAS_KeepsPrevious(c) ==
    /\ shared.gen.tag = "Fibonacci"
    /\ callers[c].pc = "cas"
    /\ IF shared.ptr = callers[c].curr
       THEN /\ shared' = [shared EXCEPT
                              !.gen.state = <<callers[c].currState[1],
                                              callers[c].next>>,
                              !.ptr = @ + 1]
            /\ hist' = Append(hist, callers[c].next)
            /\ callers' = [callers EXCEPT ![c] = Idle]
       ELSE /\ callers' = [callers EXCEPT ![c] = [Idle EXCEPT !.pc = "load"]]
            /\ UNCHANGED <<shared, hist>>
    /\ UNCHANGED <<execVars, seqVars>>

\* mutant of FibCAS: the new state is stored whatever the pointer is
FibCAS_Unconditional(c) ==
    /\ shared.gen.tag = "Fibonacci"
    /\ callers[c].pc = "cas"
    /\ shared' = [shared EXCEPT
                      !.gen.state = <<callers[c].currState[2], callers[c].next>>,
                      !.ptr = @ + 1]
    /\ hist' = Append(hist, callers[c].next)
    /\ callers' = [callers EXCEPT ![c] = Idle]
    /\ UNCHANGED <<execVars, seqVars>>

\* fibonacciBackoff.Next, the end of the loop: atomic.CompareAndSwapPointer
\* of the loaded pointer for a new state, and the return or the next round
FibCAS(c) ==
    /\ shared.gen.tag = "Fibonacci"
    /\ callers[c].pc = "cas"
    /\ IF shared.ptr = callers[c].curr
       THEN /\ shared' = [shared EXCEPT
                              !.gen.state = <<callers[c].currState[2],
                                              callers[c].next>>,
                              !.ptr = @ + 1]
            /\ hist' = Append(hist, callers[c].next)
            /\ callers' = [callers EXCEPT ![c] = Idle]
       ELSE /\ callers' = [callers EXCEPT ![c] = [Idle EXCEPT !.pc = "load"]]
            /\ UNCHANGED <<shared, hist>>
    /\ UNCHANGED <<execVars, seqVars>>

\* Reset by one more goroutine: atomic.StoreUint64(&b.attempt, 0), or
\* atomic.StorePointer of a new state {0, base}
ConReset ==
    /\ shared.resets < MaxConResets
    /\ shared' = [gen |-> IF shared.gen.tag = "Exponential"
                          THEN exponentialReset(shared.gen)
                          ELSE fibonacciReset(shared.gen),
                  ptr |-> IF shared.gen.tag = "Exponential"
                          THEN shared.ptr
                          ELSE shared.ptr + 1,
                  resets |-> shared.resets + 1]
    /\ UNCHANGED <<callers, hist, execVars, seqVars>>

ConStep ==
    \/ \E c \in Callers : ExpAdd(c)
    \/ \E c \in Callers : ExpShift(c)
    \/ \E c \in Callers : FibLoad(c)
    \/ \E c \in Callers : FibCAS(c)
    \/ ConReset

ConSpec == ConInit /\ [][ConStep]_vars

(***************************************************************************)
(* Executors of retry.Do that run concurrently, without cancellation, on   *)
(* one shared WithMaxRetries(k, NewConstant(d)); each one's operation      *)
(* always returns a retryable error. The steps of nextWithMaxRetries are   *)
(* those between l.Lock() and the deferred l.Unlock().                     *)
(***************************************************************************)
NumExecutors == 2
Executors == 1..NumExecutors

\* an executor that has not started: where it is, the error of its last
\* invocation, its local next and stop, the counter it read, how often it
\* invoked the operation, and what it returned
DuoStart ==
    [pc |-> "top", err |-> NoErr, next |-> 0, stop |-> FALSE, seen |-> 0,
     calls |-> 0, result |-> Pending]

\* the shared backoff, its mutex free (0) or held by an executor
DuoInit ==
    /\ ExecInit
    /\ SeqIdle
    /\ \E k \in 0..MaxK :
           shared = [b |-> WithMaxRetries(k, NewConstant(1).b), l |-> 0]
    /\ callers = [c \in Executors |-> DuoStart]
    /\ hist = << >>

\* the check of ctx, which is not done, and err := f(ctx) with a retryable
\* error, which passes errors.As
DuoInvoke(c) ==
    /\ callers[c].pc = "top"
    /\ \E e \in {RetryableError(<<cause>>) : cause \in Causes} :
           callers' = [callers EXCEPT ![c].pc = "next",
                                      ![c].err = e,
                                      ![c].calls = @ + 1]
    /\ UNCHANGED <<shared, hist, execVars, seqVars>>

\* mutant of DuoLock: the body runs without the mutex
DuoLock_NoMutex(c) ==
    /\ callers[c].pc = "next"
    /\ shared' = [shared EXCEPT !.l = c]
    /\ callers' = [callers EXCEPT ![c].pc = "test"]
    /\ UNCHANGED <<hist, execVars, seqVars>>

\* b.Next() enters nextWithMaxRetries: l.Lock()
DuoLock(c) ==
    /\ callers[c].pc = "next"
    /\ shared.l = 0
    /\ shared' = [shared EXCEPT !.l = c]
    /\ callers' = [callers EXCEPT ![c].pc = "test"]
    /\ UNCHANGED <<hist, execVars, seqVars>>

\* if attempt >= max { return 0, true }
DuoTest(c) ==
    /\ callers[c].pc = "test"
    /\ LET l == shared.b[1]
       IN callers' =
              IF l.attempt >= l.param
              THEN [callers EXCEPT ![c].pc = "unlock",
                                   ![c].next = 0,
                                   ![c].stop = TRUE]
              ELSE [callers EXCEPT ![c].pc = "count",
                                   ![c].seen = l.attempt]
    /\ UNCHANGED <<shared, hist, execVars, seqVars>>

\* attempt++; val, stop := next.Next(); return val, false
DuoCount(c) ==
    /\ callers[c].pc = "count"
    /\ LET in == BackoffNext(Tail(shared.b), FALSE)
           counted == [shared.b[1] EXCEPT !.attempt = callers[c].seen + 1]
       IN /\ shared' = [shared EXCEPT !.b = <<counted>> \o in.b]
          /\ callers' = [callers EXCEPT ![c].pc = "unlock",
                                        ![c].next = IF in.stop THEN 0 ELSE in.val,
                                        ![c].stop = in.stop]
    /\ UNCHANGED <<hist, execVars, seqVars>>

\* the deferred l.Unlock(), and in retry.Do the return when stop is set
DuoUnlock(c) ==
    /\ callers[c].pc = "unlock"
    /\ shared' = [shared EXCEPT !.l = 0]
    /\ hist' = Append(hist, <<callers[c].next, callers[c].stop>>)
    /\ callers' =
           IF callers[c].stop
           THEN [callers EXCEPT ![c].pc = "done",
                                ![c].result = BackoffExhausted(callers[c].err)]
           ELSE [callers EXCEPT ![c].pc = "wait"]
    /\ UNCHANGED <<execVars, seqVars>>

\* the second check of ctx, the timer and its expiry: continue
DuoWake(c) ==
    /\ callers[c].pc = "wait"
    /\ callers' = [callers EXCEPT ![c].pc = "top"]
    /\ UNCHANGED <<shared, hist, execVars, seqVars>>

DuoStepOf(c) ==
    \/ DuoInvoke(c)
    \/ DuoLock(c)
    \/ DuoTest(c)
    \/ DuoCount(c)
    \/ DuoUnlock(c)
    \/ DuoWake(c)

DuoStep == \E c \in Executors : DuoStepOf(c)

DuoSpec == DuoInit /\ [][DuoStep]_vars

\* every executor that can take a step takes one: the scheduler runs every
\* runnable goroutine, and the timers expire
DuoLiveSpec == DuoSpec /\ \A c \in Executors : WF_vars(DuoStepOf(c))

(***************************************************************************)
(* Concurrent callers of Next and Reset on the outermost backoff of        *)
(* WithMaxRetries(k, WithMaxDuration(t, NewExponential(1))). l1 is the     *)
(* sync.Mutex of WithMaxRetries, l2 the sync.RWMutex of WithMaxDuration;   *)
(* each decorator is behind a *ResettableBackoff whose field Backoff Next  *)
(* reads and Reset assigns. A goroutine at Lock or RLock waits until the   *)
(* mutex admits it.                                                        *)
(***************************************************************************)
\* Next calls started on the shared chain
MaxLockNexts == 3
\* the timeouts of the WithMaxDuration
LockTimeouts == {1, 2}

\* a caller that is in no call: where it is, and what its Next returns
LockIdle == [pc |-> "idle", ret |-> <<0, FALSE>>]

\* the chain, built at time 0; its mutexes: l1 free (0) or held by a caller,
\* l2 with its readers and its writer; the clock; the calls started
LockInit ==
    /\ ExecInit
    /\ SeqIdle
    /\ \E k \in 1..MaxK, t \in LockTimeouts :
           shared = [b |-> WithMaxRetries(k, WithMaxDuration(t, NewExponential(1).b, 0)),
                     l1 |-> 0, l2 |-> [r |-> {}, w |-> 0],
                     now |-> 0, nexts |-> 0, resets |-> 0]
    /\ callers = [c \in Callers |-> LockIdle]
    /\ hist = << >>

\* a caller calls Next on the outermost backoff
LockNextCall(c) ==
    /\ callers[c].pc = "idle"
    /\ shared.nexts < MaxLockNexts
    /\ shared' = [shared EXCEPT !.nexts = @ + 1]
    /\ callers' = [callers EXCEPT ![c].pc = "read1"]
    /\ UNCHANGED <<hist, execVars, seqVars>>

\* (*ResettableBackoff).Next of the outermost: b.Backoff is read, and is
\* nextWithMaxRetries before and after every assignment
LockNextRead(c) ==
    /\ callers[c].pc = "read1"
    /\ callers' = [callers EXCEPT ![c].pc = "lock1"]
    /\ UNCHANGED <<shared, hist, execVars, seqVars>>

\* nextWithMaxRetries: l.Lock()
LockNextLock(c) ==
    /\ callers[c].pc = "lock1"
    /\ shared.l1 = 0
    /\ shared' = [shared EXCEPT !.l1 = c]
    /\ callers' = [callers EXCEPT ![c].pc = "count"]
    /\ UNCHANGED <<hist, execVars, seqVars>>

\* mutant of LockNextCount: at the limit Next returns with l still locked
LockNextCount_NoUnlock(c) ==
    /\ callers[c].pc = "count"
    /\ LET l == shared.b[1]
       IN IF l.attempt >= l.param
          THEN /\ callers' = [callers EXCEPT ![c] = LockIdle]
               /\ UNCHANGED shared
          ELSE /\ shared' = [shared EXCEPT !.b[1].attempt = @ + 1]
               /\ callers' = [callers EXCEPT ![c].pc = "rlock2"]
    /\ UNCHANGED <<hist, execVars, seqVars>>

\* nextWithMaxRetries: if attempt >= max { return 0, true }; attempt++; then
\* next.Next() reads the field Backoff of the inner wrapper
LockNextCount(c) ==
    /\ callers[c].pc = "count"
    /\ LET l == shared.b[1]
       IN IF l.attempt >= l.param
          THEN /\ callers' = [callers EXCEPT ![c].pc = "unlock1",
                                             ![c].ret = <<0, TRUE>>]
               /\ UNCHANGED shared
          ELSE /\ shared' = [shared EXCEPT !.b[1].attempt = @ + 1]
               /\ callers' = [callers EXCEPT ![c].pc = "rlock2"]
    /\ UNCHANGED <<hist, execVars, seqVars>>

\* nextWithMaxDuration: l.RLock()
LockNextRLock(c) ==
    /\ callers[c].pc = "rlock2"
    /\ shared.l2.w = 0
    /\ shared' = [shared EXCEPT !.l2.r = @ \cup {c}]
    /\ callers' = [callers EXCEPT ![c].pc = "inner"]
    /\ UNCHANGED <<hist, execVars, seqVars>>

\* nextWithMaxDuration between RLock and RUnlock, the Next of the
\* Exponential included
LockNextInner(c) ==
    /\ callers[c].pc = "inner"
    /\ LET r == BackoffNextIn(Tail(shared.b), Env(FALSE, shared.now, 0, 0))
       IN /\ shared' = [shared EXCEPT !.b = <<shared.b[1]>> \o r.b]
          /\ callers' = [callers EXCEPT ![c].pc = "runlock2",
                                        ![c].ret = <<r.val, r.stop>>]
    /\ UNCHANGED <<hist, execVars, seqVars>>

\* nextWithMaxDuration: the deferred l.RUnlock(); back in nextWithMaxRetries,
\* if stop { return 0, true }
LockNextRUnlock(c) ==
    /\ callers[c].pc = "runlock2"
    /\ shared' = [shared EXCEPT !.l2.r = @ \ {c}]
    /\ callers' = [callers EXCEPT ![c].pc = "unlock1",
                                  ![c].ret = IF @[2] THEN <<0, TRUE>> ELSE @]
    /\ UNCHANGED <<hist, execVars, seqVars>>

\* nextWithMaxRetries: the deferred l.Unlock(); Next returns
LockNextUnlock(c) ==
    /\ callers[c].pc = "unlock1"
    /\ shared' = [shared EXCEPT !.l1 = 0]
    /\ callers' = [callers EXCEPT ![c] = LockIdle]
    /\ UNCHANGED <<hist, execVars, seqVars>>

\* a caller calls Reset on the outermost backoff
LockResetCall(c) ==
    /\ callers[c].pc = "idle"
    /\ shared.resets < MaxConResets
    /\ shared' = [shared EXCEPT !.resets = @ + 1]
    /\ callers' = [callers EXCEPT ![c].pc = "rlock1"]
    /\ UNCHANGED <<hist, execVars, seqVars>>

\* the reset of WithMaxRetries: l.Lock()
LockResetLock(c) ==
    /\ callers[c].pc = "rlock1"
    /\ shared.l1 = 0
    /\ shared' = [shared EXCEPT !.l1 = c]
    /\ callers' = [callers EXCEPT ![c].pc = "zero"]
    /\ UNCHANGED <<hist, execVars, seqVars>>

\* the reset of WithMaxRetries: attempt = 0, then next.Reset()
LockResetZero(c) ==
    /\ callers[c].pc = "zero"
    /\ shared' = [shared EXCEPT !.b[1].attempt = 0]
    /\ callers' = [callers EXCEPT ![c].pc = "lock2"]
    /\ UNCHANGED <<hist, execVars, seqVars>>

\* the reset of WithMaxDuration: l.Lock()
LockResetLock2(c) ==
    /\ callers[c].pc = "lock2"
    /\ shared.l2.w = 0
    /\ shared.l2.r = {}
    /\ shared' = [shared EXCEPT !.l2.w = c]
    /\ callers' = [callers EXCEPT ![c].pc = "restart"]
    /\ UNCHANGED <<hist, execVars, seqVars>>

\* the reset of WithMaxDuration: start = time.Now(); next.Reset()
LockResetRestart(c) ==
    /\ callers[c].pc = "restart"
    /\ shared' = [shared EXCEPT
                      !.b = <<shared.b[1]>> \o BackoffResetAt(Tail(shared.b), shared.now)]
    /\ callers' = [callers EXCEPT ![c].pc = "unlock2"]
    /\ UNCHANGED <<hist, execVars, seqVars>>

\* the reset of WithMaxDuration: the deferred l.Unlock()
LockResetUnlock2(c) ==
    /\ callers[c].pc = "unlock2"
    /\ shared' = [shared EXCEPT !.l2.w = 0]
    /\ callers' = [callers EXCEPT ![c].pc = "store2"]
    /\ UNCHANGED <<hist, execVars, seqVars>>

\* the inner wrapper: resettableBackoff.Backoff = reset(), the value that
\* it held
LockResetStore2(c) ==
    /\ callers[c].pc = "store2"
    /\ callers' = [callers EXCEPT ![c].pc = "runlock1"]
    /\ UNCHANGED <<shared, hist, execVars, seqVars>>

\* the reset of WithMaxRetries: the deferred l.Unlock()
LockResetUnlock(c) ==
    /\ callers[c].pc = "runlock1"
    /\ shared' = [shared EXCEPT !.l1 = 0]
    /\ callers' = [callers EXCEPT ![c].pc = "store1"]
    /\ UNCHANGED <<hist, execVars, seqVars>>

\* the outermost wrapper: resettableBackoff.Backoff = reset(), the value
\* that it held; Reset returns
LockResetStore(c) ==
    /\ callers[c].pc = "store1"
    /\ callers' = [callers EXCEPT ![c].pc = "idle"]
    /\ UNCHANGED <<shared, hist, execVars, seqVars>>

\* the clock advances, as far as the timeout
LockTick ==
    /\ shared.now < shared.b[2].param
    /\ shared' = [shared EXCEPT !.now = @ + 1]
    /\ UNCHANGED <<callers, hist, execVars, seqVars>>

\* the steps of a caller inside Next or Reset
LockStepOf(c) ==
    \/ LockNextRead(c)
    \/ LockNextLock(c)
    \/ LockNextCount(c)
    \/ LockNextRLock(c)
    \/ LockNextInner(c)
    \/ LockNextRUnlock(c)
    \/ LockNextUnlock(c)
    \/ LockResetLock(c)
    \/ LockResetZero(c)
    \/ LockResetLock2(c)
    \/ LockResetRestart(c)
    \/ LockResetUnlock2(c)
    \/ LockResetStore2(c)
    \/ LockResetUnlock(c)
    \/ LockResetStore(c)

LockStep ==
    \/ \E c \in Callers : LockNextCall(c)
    \/ \E c \in Callers : LockResetCall(c)
    \/ \E c \in Callers : LockStepOf(c)
    \/ LockTick

LockSpec == LockInit /\ [][LockStep]_vars

\* a goroutine that can run does run
LockLiveSpec == LockSpec /\ \A c \in Callers : WF_vars(LockStepOf(c))

(***************************************************************************)
(* Properties of the executors.                                            *)
(***************************************************************************)
\* every invocation so far returned an error marked retryable
AllRetryable == mode = "retry" /\ \A i \in 1..Len(rets) : IsRetryable(rets[i])

\* the last value f returned
LastRet == rets[Len(rets)]

\* the backoff is WithMaxRetries(k, Constant(d))
IsMaxRetriesConstant(k) ==
    /\ Len(b) = 2
    /\ b[1].tag = "MaxRetries"
    /\ b[1].param = k
    /\ b[2].tag = "Constant"

\* the backoff is a base generator alone: it never signals stop
NeverStops == Len(b) = 1 /\ b[1].tag \in {"Constant", "Exponential", "Fibonacci"}

\* retry.Do itself is running or has returned
InDo == mode = "retry" /\ pc # "start" /\ b # << >>

\* C1: retry Do without cancellation over an operation that always returns a
\* retryable error, with the backoff WithMaxRetries(k, Constant(d)), invokes
\* the operation exactly k+1 times and then returns BackoffExhausted.
C1_MaxRetriesInvokesKPlus1 ==
    \A k \in 0..MaxK :
        (InDo /\ IsMaxRetriesConstant(k))
            ~> \/ /\ pc = "done"
                  /\ calls = k + 1
                  /\ result.tag = "errorf"
                  /\ result.e1 = errBackoffSignaledToStop
               \/ Done
               \/ ~AllRetryable

C1_Witness ==
    /\ InDo
    /\ IsMaxRetriesConstant(MaxK)
    /\ pc = "done"
    /\ ~Done
    /\ AllRetryable
    /\ calls = MaxK + 1
    /\ ResultIs(result, errBackoffSignaledToStop)

\* C2: in retry Do the first invocation that returns an error not marked
\* retryable ends the loop at once: every invocation before it returned a
\* retryable error, it is the last invocation (n+1 in total after n
\* retryable ones), no b.Next() and no wait follow it, and the returned
\* error wraps both ErrNonRetryable and the error f returned.
C2_NonRetryableStopsAtOnce ==
    mode = "retry" =>
        \A i \in 1..Len(rets) :
            (rets[i] # NoErr /\ ~IsRetryable(rets[i])) =>
                /\ i = Len(rets)
                /\ calls = i
                /\ nexts = i - 1
                /\ timers = i - 1
                /\ \A j \in 1..(i - 1) : IsRetryable(rets[j])
                /\ pc \in {"classify", "done"}
                /\ pc = "done" =>
                      /\ ResultIs(result, ErrNonRetryable)
                      /\ ResultIs(result, rets[i])
                      /\ ResultIs(result, <<rets[i][Len(rets[i])]>>)

C2_Witness ==
    /\ InDo
    /\ pc = "done"
    /\ Len(rets) = 3
    /\ IsRetryable(rets[1])
    /\ IsRetryable(rets[2])
    /\ rets[3] = <<"e1">>
    /\ calls = 3
    /\ ResultIs(result, ErrNonRetryable)
    /\ ResultIs(result, <<"e1">>)

\* C3: retry Do returns nil exactly when the most recent invocation returned
\* nil, and after an invocation that returned nil there is no further
\* invocation, no b.Next() and no wait.
C3_SuccessIffLastNil ==
    mode = "retry" =>
        /\ pc = "done" =>
              (result = Return(NoErr) <=> (Len(rets) > 0 /\ LastRet = NoErr))
        /\ \A i \in 1..Len(rets) :
              rets[i] = NoErr =>
                  /\ i = Len(rets)
                  /\ calls = i
                  /\ nexts = i - 1
                  /\ timers = i - 1
                  /\ pc \in {"classify", "done"}

C3_Witness ==
    /\ InDo
    /\ pc = "done"
    /\ Len(rets) = 2
    /\ IsRetryable(rets[1])
    /\ rets[2] = NoErr
    /\ result = Return(NoErr)
    /\ nexts = 1
    /\ timers = 1

\* C4: when ctx is already canceled at the call of retry Do, Do returns
\* ctx.Err() without invoking the operation and without calling b.Next().
C4_CanceledBeforeCall ==
    /\ [](InDo /\ cancelAt = "start" =>
            /\ calls = 0
            /\ nexts = 0
            /\ timers = 0
            /\ pc \in {"top", "done"}
            /\ pc = "done" => result = Return(ctxErr))
    /\ (InDo /\ cancelAt = "start") ~> (pc = "done" /\ result = Return(ctxErr))

C4_Witness ==
    /\ InDo
    /\ cancelAt = "start"
    /\ pc = "done"
    /\ calls = 0
    /\ nexts = 0
    /\ result = Return(<<"context.Canceled">>)

\* C5: when ctx is canceled while retry Do is blocked in the wait, before
\* the timer fires, Do returns ctx.Err(), the operation is not invoked again
\* (Do leaves the wait only by returning) and no timer is pending at the return.
C5_CanceledInWait ==
    /\ [](InDo /\ woke = "ctx" =>
            /\ cancelAt = "blocked"
            /\ pc \in {"blocked", "done"}
            /\ pc = "done" => (result = Return(ctxErr) /\ timer # "pending"))
    /\ (InDo /\ woke = "ctx") ~> (pc = "done" /\ result = Return(ctxErr))

C5_Witness ==
    /\ InDo
    /\ woke = "ctx"
    /\ cancelAt = "blocked"
    /\ pc = "done"
    /\ timer = "stopped"
    /\ calls = 2
    /\ result = Return(<<"context.Canceled">>)

\* C6: with a backoff that never stops and an operation that always returns
\* a retryable error, once ctx is canceled retry Do (called directly or
\* through ConstantRetry, ExponentialRetry, FibonacciRetry) eventually
\* returns, and it returns exactly ctx.Err().
C6_CancelTerminates ==
    (InDo /\ NeverStops /\ Done /\ AllRetryable)
        ~> \/ pc = "done" /\ result = Return(ctxErr)
           \/ ~AllRetryable

C6_Witness ==
    /\ InDo
    /\ entry = "ExponentialRetry"
    /\ NeverStops
    /\ AllRetryable
    /\ calls = MaxCalls
    /\ pc = "done"
    /\ result = Return(<<"context.DeadlineExceeded">>)

\* C7 as stated: when, within one iteration of retry Do, ctx is canceled and
\* b.Next() signals stop, Do returns ctx.Err() rather than BackoffExhausted.
C7_Original ==
    (InDo /\ pc = "done" /\ stop /\ Done) => result = Return(ctxErr)

\* C7, amended: when b.Next() signals stop, retry Do returns BackoffExhausted
\* wrapping the last cause even though ctx has been canceled since the check
\* at the top of the loop, also when the stop comes from WithContext on the
\* same ctx; Do returns ctx.Err() only when b.Next() did not signal stop.
C7_StopBeforeCancel ==
    (InDo /\ pc = "done") =>
        /\ stop => result = Errorf2(errBackoffSignaledToStop,
                                    Unwrap(AsRetryable(LastRet)))
        /\ (Done /\ result = Return(ctxErr)) => ~stop

C7_Witness ==
    /\ InDo
    /\ pc = "done"
    /\ Done
    /\ cancelAt = "inF"
    /\ stop
    /\ b[1].tag = "Context"
    /\ ResultIs(result, errBackoffSignaledToStop)
    /\ ~ResultIs(result, ctxErr)

\* C8: cancellation does not pre-empt an invocation in flight: when ctx is
\* canceled while f runs, f's result is classified as usual (nil: Do returns
\* nil; an unmarked error: Do returns NonRetryable), and Do returns ctx.Err()
\* only from the check at the top of the loop, the check after b.Next() or
\* the wait.
C8_NoPreemption ==
    /\ [](InDo /\ cancelAt = "inF" =>
            /\ pc \in {"inF", "classify", "next", "check", "done"}
            /\ (pc = "done" /\ LastRet = NoErr) => result = Return(NoErr)
            /\ (pc = "done" /\ LastRet # NoErr /\ ~IsRetryable(LastRet)) =>
                  /\ ResultIs(result, ErrNonRetryable)
                  /\ ResultIs(result, LastRet)
                  /\ ~ResultIs(result, ctxErr))
    /\ [][(InDo /\ Done /\ pc # "done" /\ pc' = "done" /\ result' = Return(ctxErr))
            => pc \in {"top", "check", "select", "blocked"}]_vars

C8_Witness ==
    /\ InDo
    /\ cancelAt = "inF"
    /\ pc = "done"
    /\ calls = 2
    /\ LastRet = <<"e2">>
    /\ ResultIs(result, ErrNonRetryable)

\* C9: when retry Do returns BackoffExhausted, the returned error wraps what
\* the retryable error of the most recent invocation wraps, not that of an
\* earlier invocation, and that cause is found by errors.Is.
C9_ExhaustedWrapsLastCause ==
    (InDo /\ pc = "done" /\ stop) =>
        /\ result.tag = "errorf"
        /\ result.e1 = errBackoffSignaledToStop
        /\ result.e2 = Unwrap(AsRetryable(LastRet))
        /\ ResultIs(result, <<LastRet[Len(LastRet)]>>)
        /\ ResultIs(result, errBackoffSignaledToStop)

C9_Witness ==
    /\ InDo
    /\ pc = "done"
    /\ stop
    /\ calls = 2
    /\ rets[1] = RetryableError(<<"e1">>)
    /\ rets[2] = RetryableError(<<"e2">>)
    /\ ResultIs(result, <<"e2">>)
    /\ ~ResultIs(result, <<"e1">>)

\* C10: in repeat Do an invocation that returns false is the last one: after
\* n invocations that returned true and one that returned false the operation
\* was invoked n+1 times, and Do returns exactly ErrFunctionSignaledToStop.
C10_RepeatFalseStops ==
    mode = "repeat" =>
        \A i \in 1..Len(rets) :
            rets[i] = FALSE =>
                /\ i = Len(rets)
                /\ calls = i
                /\ \A j \in 1..(i - 1) : rets[j] = TRUE
                /\ pc \in {"classify", "done"}
                /\ pc = "done" => result = Return(ErrFunctionSignaledToStop)

C10_Witness ==
    /\ mode = "repeat"
    /\ pc = "done"
    /\ ~Done
    /\ rets = <<TRUE, TRUE, FALSE>>
    /\ calls = 3
    /\ result = Return(ErrFunctionSignaledToStop)

\* C11: in repeat DoUntilError the first non-nil error f returns ends the loop
\* at once (no further invocation, no b.Next() and no wait follow it) and the
\* returned error wraps both ErrFunctionSignaledToStop and that error; a nil
\* result never ends the loop: after it DoUntilError returns only because the
\* backoff stopped or ctx was canceled.
C11_UntilErrorStopsAtOnce ==
    mode = "untilError" =>
        /\ \A i \in 1..Len(rets) :
              rets[i] # NoErr =>
                  /\ i = Len(rets)
                  /\ calls = i
                  /\ nexts = i - 1
                  /\ timers = i - 1
                  /\ \A j \in 1..(i - 1) : rets[j] = NoErr
                  /\ pc \in {"classify", "done"}
                  /\ pc = "done" =>
                        /\ ResultIs(result, ErrFunctionSignaledToStop)
                        /\ ResultIs(result, rets[i])
        /\ (pc = "done" /\ Len(rets) > 0 /\ LastRet = NoErr) =>
              /\ ~ResultIs(result, ErrFunctionSignaledToStop)
              /\ \/ stop /\ result = Return(ErrBackoffSignaledToStop)
                 \/ Done /\ result = Return(ctxErr)

C11_Witness ==
    /\ mode = "untilError"
    /\ pc = "done"
    /\ rets = <<NoErr, NoErr, <<"e2">>>>
    /\ calls = 3
    /\ nexts = 2
    /\ ResultIs(result, ErrFunctionSignaledToStop)
    /\ ResultIs(result, <<"e2">>)

(***************************************************************************)
(* Properties of a backoff called directly.                                *)
(***************************************************************************)
\* the backoff called directly is a base generator alone
SbIsGenerator(tag) == Len(sb) = 1 /\ sb[1].tag = tag

\* the backoff called directly is WithMaxRetries(k, g) for a generator g
SbIsMaxRetries(k) ==
    /\ Len(sb) = 2
    /\ sb[1].tag = "MaxRetries"
    /\ sb[1].param = k

\* the a-th term of the doubling sequence, and of the Fibonacci sequence 1, 2, 3, 5, ...
ExpTerm(base, a) == base * 2 ^ (a - 1)

RECURSIVE Fib(_)
Fib(a) == IF a <= 2 THEN a ELSE Fib(a - 1) + Fib(a - 2)

FibTerm(base, a) == base * Fib(a)

\* a term, or the maximum duration once the term is not representable
Saturated(x) == IF x <= MaxInt THEN x ELSE MaxInt

\* what the a-th Next of a fresh generator g returns
GenTerm(g, a) ==
    CASE g.tag = "Constant" -> g.param
      [] g.tag = "Exponential" -> Saturated(ExpTerm(g.param, a))
      [] g.tag = "Fibonacci" -> Saturated(FibTerm(g.param, a))

\* C12 as stated: WithMaxRetries(k, inner) over a never-stopping inner lets
\* exactly k+1 Next calls through and stops from call k+2 on, also after Reset.
C12_Original ==
    \A k \in 0..MaxK :
        SbIsMaxRetries(k) =>
            \A i \in 1..Len(outs) : outs[i][2] <=> i >= k + 2

\* C12, amended: WithMaxRetries(k, inner) over a never-stopping inner lets
\* exactly k Next calls through and stops from call k+1 on; after Reset it
\* again lets exactly k calls through.
C12_KCallsThenStop ==
    \A k \in 0..MaxK :
        SbIsMaxRetries(k) =>
            /\ \A i \in 1..Len(outs) : outs[i][2] <=> i >= k + 1
            /\ \A i \in 1..Len(prevOuts) : prevOuts[i][2] <=> i >= k + 1

C12_Witness ==
    /\ SbIsMaxRetries(MaxK)
    /\ resets = 1
    /\ Len(prevOuts) = MaxK + 1
    /\ prevOuts[MaxK + 1][2]
    /\ Len(outs) = MaxK + 1
    /\ ~outs[MaxK][2]
    /\ outs[MaxK + 1][2]

\* C13: WithMaxRetries(k, inner) over a never-stopping inner returns inner's
\* value with stop = false on exactly its first k Next calls and (0, true) on
\* call k+1; a Reset after k successful calls grants exactly k further
\* successful calls, with inner's values from its start, before (0, true).
C13_MaxRetriesValues ==
    \A k \in 0..MaxK :
        SbIsMaxRetries(k) =>
            \A i \in 1..Len(outs) :
                outs[i] = IF i <= k THEN <<GenTerm(sb[2], i), FALSE>>
                                    ELSE <<0, TRUE>>

C13_Witness ==
    /\ SbIsMaxRetries(MaxK)
    /\ sb[2].tag = "Exponential"
    /\ sb[2].param = 3
    /\ resets = 1
    /\ Len(prevOuts) = MaxK
    /\ ~prevOuts[MaxK][2]
    /\ Len(outs) = MaxK + 1
    /\ outs[1] = <<3, FALSE>>
    /\ outs[MaxK + 1] = <<0, TRUE>>

\* C14: WithCappedDuration(cap, inner).Next() never returns a value above
\* cap, for any inner and any number of calls, and it stops exactly when
\* inner stops.
C14_CappedNeverAboveCap ==
    (sb # << >> /\ sb[1].tag = "Capped") =>
        \A i \in 1..Len(outs) :
            LET innerStops == sb[2].tag = "MaxRetries" /\ i > sb[2].param
            IN /\ outs[i][2] <=> innerStops
               /\ ~outs[i][2] => outs[i][1] <= sb[1].param

C14_Witness ==
    /\ Len(sb) = 2
    /\ sb[1].tag = "Capped"
    /\ sb[1].param = 4
    /\ sb[2].tag = "Exponential"
    /\ sb[2].param = 3
    /\ Len(outs) = 3
    /\ outs = <<<<3, FALSE>>, <<4, FALSE>>, <<4, FALSE>>>>

\* C15: every Next call on a backoff built from the generators and decorators
\* with parameters their constructors accept returns a non-negative duration.
C15_NonNegative ==
    \A i \in 1..Len(outs) : outs[i][1] >= 0

\* C16: the a-th sequential Next of Exponential(base) returns
\* base * 2^(a-1) with stop = false, as long as that value is representable.
C16_ExponentialTerms ==
    SbIsGenerator("Exponential") =>
        \A a \in 1..Len(outs) :
            ExpTerm(sb[1].param, a) <= MaxInt =>
                outs[a] = <<ExpTerm(sb[1].param, a), FALSE>>

C16_Witness ==
    /\ SbIsGenerator("Exponential")
    /\ sb[1].param = 3
    /\ Len(outs) = 3
    /\ outs = <<<<3, FALSE>>, <<6, FALSE>>, <<12, FALSE>>>>

\* C17: sequential Next calls of Fibonacci(base) return base, 2*base, 3*base,
\* 5*base, 8*base, ... with stop = false, until the sum overflows.
C17_FibonacciTerms ==
    SbIsGenerator("Fibonacci") =>
        \A a \in 1..Len(outs) :
            FibTerm(sb[1].param, a) <= MaxInt =>
                outs[a] = <<FibTerm(sb[1].param, a), FALSE>>

C17_Witness ==
    /\ SbIsGenerator("Fibonacci")
    /\ sb[1].param = 1
    /\ Len(outs) = 5
    /\ outs = <<<<1, FALSE>>, <<2, FALSE>>, <<3, FALSE>>, <<5, FALSE>>,
                <<8, FALSE>>>>

\* the returned values, and the callers at rest
HistValues == {hist[i] : i \in 1..Len(hist)}
AllIdle == \A c \in Callers : callers[c].pc = "idle"

\* the a-th term of the shared generator's sequence, not saturated
RawTerm(a) ==
    IF shared.gen.tag = "Exponential"
    THEN ExpTerm(shared.gen.param, a)
    ELSE FibTerm(shared.gen.param, a)

\* C18: Exponential shared by concurrent callers and never reset returns, to
\* every Next, a term base * 2^n or the maximum duration: never a wrapped
\* value.
C18_NoWrappedValue ==
    (shared.gen.tag = "Exponential" /\ shared.resets = 0) =>
        \A i \in 1..Len(hist) :
            \/ hist[i] = MaxInt
            \/ \E a \in 1..DurBits : hist[i] = ExpTerm(shared.gen.param, a)

\* C19: when N Next calls of concurrent callers on one shared Exponential or
\* Fibonacci have returned, none is under way, there was no Reset and the
\* N-th term does not overflow, the calls returned the first N terms, each
\* to one call.
C19_FirstTermsOnceEach ==
    (shared.resets = 0 /\ AllIdle /\ Len(hist) >= 1
     /\ RawTerm(Len(hist)) <= MaxInt) =>
        /\ HistValues = {RawTerm(a) : a \in 1..Len(hist)}
        /\ Cardinality(HistValues) = Len(hist)

C19_Witness ==
    /\ shared.gen.tag = "Exponential"
    /\ shared.gen.param = 1
    /\ shared.resets = 0
    /\ AllIdle
    /\ hist = <<4, 2, 1>>

\* C20: on Constant, Exponential and Fibonacci, N sequential Next calls, a
\* Reset and N more Next calls yield two identical sequences, also for N past
\* the point where the generator saturates.
C20_ResetRoundTrip ==
    (Len(sb) = 1 /\ resets >= 1) =>
        \A i \in 1..Len(outs) :
            i <= Len(prevOuts) => outs[i] = prevOuts[i]

C20_Witness ==
    /\ SbIsGenerator("Exponential")
    /\ sb[1].param = 1
    /\ resets = 1
    /\ Len(prevOuts) = MaxNexts
    /\ prevOuts[MaxNexts] = <<MaxInt, FALSE>>
    /\ prevOuts[MaxNexts - 1] = <<MaxInt, FALSE>>
    /\ Len(outs) = MaxNexts
    /\ outs[1] = <<1, FALSE>>
    /\ outs[MaxNexts] = <<MaxInt, FALSE>>

\* the <<value, stop>> of n Next calls in a row on the chain c, without
\* cancellation
RECURSIVE RunOuts(_, _)
RunOuts(c, n) ==
    IF n = 0
    THEN << >>
    ELSE LET r == BackoffNext(c, FALSE)
         IN <<<<r.val, r.stop>>>> \o RunOuts(r.b, n - 1)

\* sb is WithMaxRetries(m, WithCappedDuration(cap, NewFibonacci(base)))
SbIsStack ==
    /\ Len(sb) = 3
    /\ sb[1].tag = "MaxRetries"
    /\ sb[2].tag = "Capped"
    /\ sb[3].tag = "Fibonacci"

\* the same stack, newly constructed
FreshStack ==
    WithMaxRetries(sb[1].param,
                   WithCappedDuration(sb[2].param, NewFibonacci(sb[3].param).b))

\* the last result of Next
LastOut == outs[Len(outs)]

\* C21: after Reset on the outermost decorator of
\* WithMaxRetries(m, WithCappedDuration(cap, NewFibonacci(base))), the results
\* of the sequential Next calls are those of the newly constructed stack.
C21_ResetPropagates ==
    (SbIsStack /\ resets >= 1) => outs = RunOuts(FreshStack, Len(outs))

C21_Witness ==
    /\ SbIsStack
    /\ sb[1].param = 2
    /\ sb[2].param = 2
    /\ resets = 1
    /\ prevOuts = <<<<1, FALSE>>, <<2, FALSE>>, <<0, TRUE>>>>
    /\ outs = <<<<1, FALSE>>, <<2, FALSE>>, <<0, TRUE>>>>

\* C22: after Reset on a WithContext, or on a stack of built-in decorators
\* that holds one, the wrapped Exponential or Fibonacci starts again at base.
C22_ContextResetRestarts ==
    (HasLayer({"Context"}) /\ resets >= 1 /\ Len(outs) >= 1 /\ ~outs[1][2]) =>
        outs[1][1] = sb[Len(sb)].param

\* sb is a WithReset of the caller around WithCappedDuration(cap, g)
SbIsExplicitReset ==
    /\ Len(sb) >= 2
    /\ sb[1].tag = "Reset"

\* C23: WithReset(rebuild, WithCappedDuration(cap, g)), where rebuild returns
\* a new g without decorator: before Reset each Next is bounded by cap, after
\* Reset Next yields the sequence of the new g from its start, not capped.
C23_RebuildDropsDecorators ==
    SbIsExplicitReset =>
        IF resets = 0
        THEN /\ Len(sb) = 3
             /\ \A i \in 1..Len(outs) : outs[i][1] <= sb[2].param /\ ~outs[i][2]
        ELSE /\ Len(sb) = 2
             /\ \A i \in 1..Len(outs) :
                    outs[i] = <<GenTerm(Rebuild(sb[1].state)[1], i), FALSE>>

C23_Witness ==
    /\ SbIsExplicitReset
    /\ sb[2].tag = "Exponential"
    /\ resets = 1
    /\ prevOuts = <<<<1, FALSE>>, <<2, FALSE>>, <<2, FALSE>>>>
    /\ outs = <<<<1, FALSE>>, <<2, FALSE>>, <<4, FALSE>>>>

\* C24: Next on a WithContext returns (0, true) and leaves next as it is when
\* ctx is done, and returns what next.Next() returns otherwise; once ctx is
\* done it stays so, and every later Next stops.
C24_ContextStopsWhenDone ==
    [][(sb # << >> /\ sb[1].tag = "Context" /\ Len(outs') = Len(outs) + 1) =>
           IF Done
           THEN /\ outs'[Len(outs')] = <<0, TRUE>>
                /\ sb' = sb
                /\ ctxErr' = ctxErr
           ELSE LET in == BackoffNext(Tail(sb), FALSE)
                IN /\ outs'[Len(outs')] = <<in.val, in.stop>>
                   /\ Tail(sb') = in.b]_vars

C24_Witness ==
    /\ Len(sb) = 2
    /\ sb[1].tag = "Context"
    /\ sb[2].tag = "Exponential"
    /\ Done
    /\ resets = 0
    /\ outs = <<<<1, FALSE>>, <<2, FALSE>>, <<0, TRUE>>, <<0, TRUE>>>>
    /\ sb[2].attempt = 2

\* sb is WithMaxDuration(timeout, inner)
SbIsMaxDuration == sb # << >> /\ sb[1].tag = "MaxDuration"

\* the time left of the window of sb: timeout less the time since start
Remaining == sb[1].param - (now - sb[1].state[1])

\* C25: Next on WithMaxDuration(timeout, inner) returns (0, true) and leaves
\* inner as it is once the time since start has reached timeout; before, a
\* Next that does not stop returns inner's value, or the time left when that
\* value is <= 0 or larger: never more than the time left.
C25_MaxDurationWithinRemaining ==
    [][(SbIsMaxDuration /\ Len(outs') = Len(outs) + 1) =>
           IF now - sb[1].state[1] >= sb[1].param
           THEN /\ outs'[Len(outs')] = <<0, TRUE>>
                /\ sb' = sb
           ELSE LET in == BackoffNext(Tail(sb), FALSE)
                    out == outs'[Len(outs')]
                IN /\ out[2] <=> in.stop
                   /\ ~out[2] => /\ out[1] <= Remaining
                                 /\ out[1] > 0
                                 /\ out[1] = IF in.val <= 0 \/ in.val > Remaining
                                             THEN Remaining
                                             ELSE in.val]_vars

C25_Witness ==
    /\ SbIsMaxDuration
    /\ sb[1].param = 3
    /\ sb[2].tag = "Exponential"
    /\ resets = 0
    /\ now = 3
    /\ outs = <<<<1, FALSE>>, <<1, FALSE>>>>

\* C26: Reset on WithMaxDuration records the time of the Reset as start and
\* resets inner: a Next at once after a Reset does not stop and returns at
\* most timeout, also when the Next before the Reset stopped for the timeout.
C26_ResetRestartsWindow ==
    [][/\ (SbIsMaxDuration /\ resets' = resets + 1) => sb'[1].state[1] = now
       /\ (/\ SbIsMaxDuration
           /\ sb[1].param > 0
           /\ resets >= 1
           /\ outs = << >>
           /\ now = sb[1].state[1]
           /\ Len(outs') = 1) =>
              /\ ~outs'[1][2]
              /\ outs'[1][1] <= sb[1].param
              /\ outs'[1] = RunOuts(WithMaxDuration(sb[1].param,
                                                    BackoffReset(Tail(sb)), 0),
                                    1)[1]]_vars

C26_Witness ==
    /\ SbIsMaxDuration
    /\ sb[1].param = 2
    /\ sb[2].tag = "Exponential"
    /\ resets = 1
    /\ sb[1].state[1] = 3
    /\ now = 4
    /\ prevOuts = <<<<1, FALSE>>, <<0, TRUE>>>>
    /\ outs = <<<<1, FALSE>>, <<1, FALSE>>>>

\* C27: NewConstant, NewExponential and NewFibonacci return an error and no
\* backoff for a base <= 0, WithJitter returns ErrInvalidJitter for j <= 0,
\* WithJitterPercent returns ErrInvalidJitterPercent for j = 0 and j > 100;
\* for every other argument they return a backoff and no error.
C27_ConstructorsReject ==
    LET bad == CASE made.ctor \in {"NewConstant", "NewExponential", "NewFibonacci"}
                       -> made.arg <= 0
                 [] made.ctor = "WithJitter" -> made.arg <= 0
                 [] made.ctor = "WithJitterPercent" -> made.arg = 0 \/ made.arg > 100
                 [] OTHER -> FALSE
    IN made.ctor # "none" =>
           /\ bad => made.res.b = << >> /\ made.res.err # NoErr
           /\ ~bad => made.res.b # << >> /\ made.res.err = NoErr
           /\ (bad /\ made.ctor = "WithJitter") => made.res.err = ErrInvalidJitter
           /\ (bad /\ made.ctor = "WithJitterPercent") =>
                  made.res.err = ErrInvalidJitterPercent

C27_Witness ==
    /\ made.ctor = "WithJitterPercent"
    /\ made.arg = 101
    /\ made.res = Failed(ErrInvalidJitterPercent)
    /\ sb = << >>

\* sb is WithJitter(j, NewConstant(D))
SbIsJitterConstant ==
    /\ Len(sb) = 2
    /\ sb[1].tag = "Jitter"
    /\ sb[2].tag = "Constant"

\* C28: each Next on WithJitter(j, inner), inner returning D always, returns
\* a value of [max(0, D - j), D + j] and no stop, and no Next panics.
C28_JitterWithinSpread ==
    SbIsJitterConstant =>
        /\ ~panicked
        /\ \A i \in 1..Len(outs) :
               /\ ~outs[i][2]
               /\ outs[i][1] >= sb[2].param - sb[1].param
               /\ outs[i][1] >= 0
               /\ outs[i][1] <= sb[2].param + sb[1].param

\* sb is WithCappedDuration(2, NewFibonacci(1)), not reset
SbIsCappedFibonacci ==
    /\ Len(sb) = 2
    /\ sb[1].tag = "Capped"
    /\ sb[1].param = 2
    /\ sb[2].tag = "Fibonacci"
    /\ sb[2].param = 1
    /\ resets = 0

C30_CounterNeverWraps ==
    shared.gen.tag = "Exponential" => shared.gen.attempt <= MaxConCalls

\* the pairs a Fibonacci of the given base can be in: {0, base}, or two
\* terms in a row of base * (1, 1, 2, 3, 5, ...)
FibPairs(base) ==
    {<<0, base>>, <<base, base>>}
      \cup {<<FibTerm(base, a), FibTerm(base, a + 1)>> : a \in 1..(2 * DurBits)}

\* the finished Next calls that returned a term
TermReturns == {i \in 1..Len(hist) : hist[i] # MaxInt}

\* C31: under every interleaving of concurrent Next and Reset calls on a
\* shared Fibonacci, the state pair (p, c), as stored and as loaded by a
\* caller, is {0, base} or two terms in a row, with 0 <= p <= c <= MaxInt and
\* c > 0; every stored transition is returned by one Next call, and without
\* a Reset no term is returned twice.
C31_FibonacciIntegrity ==
    shared.gen.tag = "Fibonacci" =>
        LET ok(s) == /\ s \in FibPairs(shared.gen.param)
                     /\ 0 <= s[1] /\ s[1] <= s[2] /\ 0 < s[2] /\ s[2] <= MaxInt
        IN /\ ok(shared.gen.state)
           /\ \A c \in Callers :
                  callers[c].pc = "cas" =>
                      /\ ok(callers[c].currState)
                      /\ callers[c].next =
                             callers[c].currState[1] + callers[c].currState[2]
           /\ shared.ptr = shared.resets + Cardinality(TermReturns)
           /\ shared.resets = 0 =>
                  \A i, j \in TermReturns : hist[i] = hist[j] => i = j

C31_Witness ==
    /\ shared.gen.tag = "Fibonacci"
    /\ shared.gen.param = 1
    /\ shared.resets = 1
    /\ shared.gen.state = <<1, 2>>
    /\ hist = <<1, 1, 2>>
    /\ \E c \in Callers : callers[c].pc = "load"
    /\ \E c \in Callers : callers[c].pc = "cas" /\ callers[c].currState = <<1, 1>>

\* C32: once a Next on a shared Fibonacci has returned the maximum for an
\* overflowing sum, and as long as there is no Reset, no step of any caller
\* changes the state pair and every Next that returns returns the maximum;
\* the Next that returns the maximum leaves the state as it is.
C32_SaturationKeepsState ==
    [][(shared.gen.tag = "Fibonacci" /\ shared'.resets = shared.resets) =>
           /\ (hist' # hist /\ hist'[Len(hist')] = MaxInt) => shared' = shared
           /\ (shared.resets = 0 /\ MaxInt \in HistValues) =>
                  /\ shared' = shared
                  /\ hist' # hist => hist'[Len(hist')] = MaxInt]_vars

C32_Witness ==
    /\ shared.gen.tag = "Fibonacci"
    /\ shared.gen.param = 2
    /\ shared.resets = 0
    /\ shared.gen.state = <<6, 10>>
    /\ hist = <<2, 4, 6, 10, MaxInt, MaxInt>>

\* a step that is one finished Next call on the backoff
IsSeqNext == Len(outs') = Len(outs) + 1

\* C33: a Next on a WithMaxRetries whose counter has reached max returns
\* (0, true) and leaves the whole backoff, the state of the inner one
\* included, as it was; so it is at the limit for the next call too.
C33_LimitLeavesInner ==
    [][(/\ IsSeqNext
        /\ sb[1].tag = "MaxRetries"
        /\ sb[1].attempt >= sb[1].param) =>
           /\ outs'[Len(outs')] = <<0, TRUE>>
           /\ sb' = sb]_vars

C33_Witness ==
    /\ made.ctor = "MaxRetries"
    /\ Len(sb) = 2
    /\ sb[1].param = 2
    /\ sb[2].tag = "Exponential"
    /\ sb[2].attempt = 2
    /\ resets = 0
    /\ outs = <<<<1, FALSE>>, <<2, FALSE>>, <<0, TRUE>>, <<0, TRUE>>>>

\* C34: a Next on a WithMaxRetries adds one to the counter when it returns
\* a duration, and leaves the counter alone when it returns stop.
C34_CountsOnlyReturnedDurations ==
    [][(IsSeqNext /\ sb[1].tag = "MaxRetries") =>
           sb'[1].attempt =
               sb[1].attempt + (IF outs'[Len(outs')][2] THEN 0 ELSE 1)]_vars

\* the backoff handed to WithReset, as it was constructed
FreshOld == Tail(made.res.b)

\* C35: Reset on WithReset(rebuild, old) leaves old as it is: the Next calls
\* on old, those through the wrapper before Reset and those through the
\* reference kept by the caller after it, yield one sequence without a
\* restart; the Next calls on the wrapper after Reset yield the sequence of
\* what rebuild returns, whatever is called on old, and leave old alone.
C35_OldChainUntouched ==
    [][(SbIsExplicitReset /\ SbIsExplicitReset') =>
           /\ old' # << >> =>
                  /\ oldOuts' = RunOuts(FreshOld, Len(oldOuts'))
                  /\ outs' = RunOuts(Rebuild(sb[1].state), Len(outs'))
           /\ (old = << >> /\ old' # << >>) => old' = Tail(sb)
           /\ IsSeqNext => old' = old
           /\ oldOuts' # oldOuts /\ old # << >> => sb' = sb]_vars

C35_Witness ==
    /\ SbIsExplicitReset
    /\ sb[1].state = RebuildExponential(1)
    /\ resets = 1
    /\ prevOuts = <<<<1, FALSE>>>>
    /\ outs = <<<<1, FALSE>>, <<2, FALSE>>, <<4, FALSE>>>>
    /\ oldOuts = <<<<1, FALSE>>, <<2, FALSE>>, <<2, FALSE>>>>
    /\ old[2].attempt = 3

\* one step of the goroutine that runs retry.Do, as a relation between the
\* values of its variables before (s) and after (t)
RetryDoStep(s, t) ==
    LET canceled == s.ctxErr # NoErr
        returned == [s EXCEPT !.pc = "done", !.result = Return(s.ctxErr)]
        onDone == [returned EXCEPT !.timer = Stop(s.timer)]
        onTimer == [s EXCEPT !.pc = "top", !.timer = "none", !.woke = "none"]
    IN CASE s.pc = "top" ->
                t = IF canceled THEN returned ELSE [s EXCEPT !.pc = "call"]
         [] s.pc = "call" ->
                t = [s EXCEPT !.pc = "inF", !.calls = @ + 1]
         [] s.pc = "inF" ->
                \E e \in OpErrors :
                    t = [s EXCEPT !.pc = "classify", !.err = e,
                                  !.rets = Append(@, e)]
         [] s.pc = "classify" ->
                t = IF s.err = NoErr
                    THEN [s EXCEPT !.pc = "done", !.result = Return(NoErr)]
                    ELSE IF ~IsRetryable(s.err)
                         THEN [s EXCEPT !.pc = "done",
                                        !.result = NonRetryable(s.err)]
                         ELSE [s EXCEPT !.pc = "next"]
         [] s.pc = "next" ->
                LET r == BackoffNext(s.b, canceled)
                    called == [s EXCEPT !.b = r.b, !.next = r.val,
                                        !.stop = r.stop, !.nexts = @ + 1]
                IN t = IF r.stop
                       THEN [called EXCEPT !.pc = "done",
                                           !.result = BackoffExhausted(s.err)]
                       ELSE [called EXCEPT !.pc = "check"]
         [] s.pc = "check" ->
                t = IF canceled THEN returned ELSE [s EXCEPT !.pc = "timer"]
         [] s.pc = "timer" ->
                t = [s EXCEPT !.pc = "select", !.timer = "pending",
                              !.timers = @ + 1]
         [] s.pc = "select" ->
                \/ canceled /\ t = onDone
                \/ s.timer = "fired" /\ t = onTimer
                \/ ~canceled /\ s.timer # "fired" /\ t = [s EXCEPT !.pc = "blocked"]
         [] s.pc = "blocked" ->
                \/ s.woke = "ctx" /\ t = onDone
                \/ s.woke = "timer" /\ t = onTimer
         [] OTHER -> FALSE

\* the error that stands for what a RepeatFunc returned: true is a
\* retryable error, false one that is not
AsRetryError(r) == IF r THEN RetryableError(<<"e1">>) ELSE <<"e1">>

\* the value of retry.Do that corresponds to a value of repeat.Do
AsRetryResult(r) ==
    IF r = Return(ErrFunctionSignaledToStop)
    THEN NonRetryable(AsRetryError(FALSE))
    ELSE IF r = Return(ErrBackoffSignaledToStop)
         THEN BackoffExhausted(AsRetryError(TRUE))
         ELSE r

\* the executor's variables, those of a repeat.Do read as those of retry.Do
AsRetry ==
    [pc |-> pc, ctxErr |-> ctxErr, b |-> b, next |-> next, stop |-> stop,
     timer |-> timer, woke |-> woke, calls |-> calls, nexts |-> nexts,
     timers |-> timers,
     err |-> IF mode = "retry" THEN err
             ELSE IF rets = << >> THEN NoErr ELSE AsRetryError(cont),
     rets |-> IF mode = "retry" THEN rets
              ELSE [i \in 1..Len(rets) |-> AsRetryError(rets[i])],
     result |-> IF mode = "retry" THEN result ELSE AsRetryResult(result)]

\* C36: every step of repeat.Do, read with true as a retryable error and
\* false as one that is not, is a step of retry.Do from the corresponding
\* state to the corresponding state (the same checks of ctx, calls of
\* b.Next(), timers and waits, and corresponding returned values); and
\* repeat.Do over WithMaxRetries(k, Constant) with an operation that always
\* returns true and no cancellation returns after k+1 invocations with
\* ErrBackoffSignaledToStop.
C36_RepeatSimulatesRetry ==
    /\ [][(mode \in {"retry", "repeat"} /\ pc # "start" /\ pc' # pc) =>
              RetryDoStep(AsRetry, AsRetry')]_vars
    /\ [](\A k \in 0..MaxK :
              (/\ mode = "repeat"
               /\ pc = "done"
               /\ IsMaxRetriesConstant(k)
               /\ ~Done
               /\ \A i \in 1..Len(rets) : rets[i]) =>
                  /\ calls = k + 1
                  /\ nexts = k + 1
                  /\ timers = k
                  /\ result = Return(ErrBackoffSignaledToStop))

C36_Witness ==
    /\ mode = "repeat"
    /\ pc = "done"
    /\ IsMaxRetriesConstant(MaxK)
    /\ ~Done
    /\ rets = [i \in 1..(MaxK + 1) |-> TRUE]
    /\ timers = MaxK
    /\ AsRetry.result = Errorf2(errBackoffSignaledToStop, <<"e1">>)

\* C37: retry.Do calls no Reset on its backoff: a second call with the
\* backoff of a call that exhausted WithMaxRetries(k, ...), with an operation
\* that always returns a retryable error and no cancellation, invokes the
\* operation once, waits for no timer and returns the backoff's stop with
\* the cause of that invocation; after b.Reset() in between it invokes the
\* operation k+1 times again.
C37_BackoffPersistsAcrossCalls ==
    (/\ pc = "done"
     /\ entry \in {"DoAgain", "DoAfterReset"}
     /\ b[1].tag = "MaxRetries"
     /\ ~Done
     /\ AllRetryable) =>
        /\ calls = IF entry = "DoAgain" THEN 1 ELSE b[1].param + 1
        /\ nexts = calls
        /\ timers = calls - 1
        /\ result = BackoffExhausted(LastRet)

C37_Witness ==
    /\ pc = "done"
    /\ entry = "DoAgain"
    /\ IsMaxRetriesConstant(MaxK)
    /\ b[1].attempt = MaxK
    /\ ~Done
    /\ rets = <<RetryableError(<<"e2">>)>>
    /\ timers = 0
    /\ result = Errorf2(errBackoffSignaledToStop, <<"e2">>)

\* the Next calls on the shared backoff that returned a duration
DuoDurations == {i \in 1..Len(hist) : ~hist[i][2]}

\* the invocations of the operations of all executors up to n
RECURSIVE DuoCalls(_)
DuoCalls(n) == IF n = 0 THEN 0 ELSE callers[n].calls + DuoCalls(n - 1)

\* every executor has returned
DuoAllDone == \A c \in Executors : callers[c].pc = "done"

\* C38: executors of retry.Do that share one WithMaxRetries(k, Constant(d)),
\* each with an operation that always returns a retryable error and no
\* cancellation: at most k Next calls return a duration; every executor
\* returns, and then exactly k Next calls have returned a duration, the
\* operations were invoked k plus the number of executors times in total
\* (k+2 for two), and every executor returned the backoff's stop with the
\* cause of its last invocation.
C38_SharedMaxRetries ==
    LET k == shared.b[1].param
    IN /\ [](/\ Cardinality(DuoDurations) <= k
             /\ DuoAllDone =>
                    /\ Cardinality(DuoDurations) = k
                    /\ Len(hist) = k + NumExecutors
                    /\ DuoCalls(NumExecutors) = k + NumExecutors
                    /\ \A c \in Executors :
                           /\ callers[c].result.tag = "errorf"
                           /\ callers[c].result.e1 = errBackoffSignaledToStop
                           /\ callers[c].result.e2 = Unwrap(callers[c].err))
       /\ <>DuoAllDone

C38_Witness ==
    /\ shared.b[1].param = 2
    /\ DuoAllDone
    /\ callers[1].calls = 1
    /\ callers[2].calls = 3
    /\ hist = <<<<1, FALSE>>, <<1, FALSE>>, <<0, TRUE>>, <<0, TRUE>>>>

\* a caller waits at a mutex that does not admit it
LockWaits(c) ==
    \/ callers[c].pc \in {"lock1", "rlock1"} /\ shared.l1 # 0
    \/ callers[c].pc = "rlock2" /\ shared.l2.w # 0
    \/ callers[c].pc = "lock2" /\ (shared.l2.w # 0 \/ shared.l2.r # {})

\* C39: on WithMaxRetries(k, WithMaxDuration(t, Exponential)), under every
\* interleaving of Next and Reset callers on the outermost backoff: whenever
\* some call is under way, some caller in a call does not wait at a mutex
\* (no deadlock); a mutex is free whenever no call holds it; and every call
\* that has started returns.
C39_NoDeadlock ==
    /\ [](/\ InFlight # {} => \E c \in InFlight : ~LockWaits(c)
          /\ shared.l1 # 0 => shared.l1 \in InFlight
          /\ shared.l2.w # 0 => shared.l2.w \in InFlight
          /\ shared.l2.r \subseteq InFlight)
    /\ \A c \in Callers : (callers[c].pc # "idle") ~> (callers[c].pc = "idle")

C39_Witness ==
    /\ \E c \in Callers : callers[c].pc = "lock2" /\ shared.l1 = c
    /\ \E c \in Callers : callers[c].pc = "lock1"
    /\ shared.b[1].attempt = 0
    /\ shared.b[3].attempt = 1

\* C40: no caller is about to assign the field Backoff of the outermost
\* wrapper while another caller is about to read or to assign it (neither
\* holds a mutex there).
C40_NoUnsynchronisedAccess ==
    \A c1, c2 \in Callers :
        (c1 # c2 /\ callers[c1].pc = "store1") =>
            callers[c2].pc \notin {"read1", "store1"}

====
